---- MODULE Spec2Model ----
(***************************************************************************)
(* Model of fujin's deployment engine: the remote installer (module        *)
(* fujin/_installer.py), the deploy command (fujin/commands/deploy.py) and  *)
(* the rollback command (fujin/commands/rollback.py).                        *)
(*                                                                         *)
(* Three specifications share the module:                                  *)
(*   SpecInstall   one run of the remote installer, main() -> install()     *)
(*   SpecDeploy    one run of Deploy.__call__ from the upload onwards       *)
(*   SpecRollback  one run of the stand-alone Rollback.__call__             *)
(*                                                                         *)
(* Names (unit names, app names) are sequences of string tokens, so that   *)
(* str.startswith / str.endswith / glob("app*") are computed on them.       *)
(***************************************************************************)
EXTENDS Integers, Sequences, FiniteSets, TLC

VARIABLES
    \* ---- the remote installer (SpecInstall) ----
    ipc,          \* position of the installer process
    cfg,          \* InstallConfig read from config.json
    sysFiles,     \* regular files in /etc/systemd/system
    wantsFiles,   \* enable symlinks in multi-user.target.wants
    dropinDirs,   \* *.d directories in /etc/systemd/system
    unitState,    \* activation state of the runtime units
    marker,       \* content of <install_dir>/.version ("none" when absent)
    restartRc,    \* return code of the systemctl restart command
    failedUnits,  \* failed_units of install()
    exitCode,     \* exit status of the installer process (-1 while running)
    cause,        \* why the installer ended
    opsLog,       \* systemctl/unlink operations performed, by kind
    caddy,        \* the reverse proxy's configuration file and reloads
    \* ---- the deploy command (SpecDeploy) ----
    dpc,          \* position of Deploy.__call__
    flags,        \* no_input, no_rollback, bundle size class, rsync on host
    remote,       \* remote versions directory and marker, as deploy sees them
    up,           \* state of the upload (attempts, verification, temp file)
    inst,         \* what the remote install command returned
    rb,           \* rollback bookkeeping of Deploy.__call__
    outcome,      \* how the deploy command ended
    \* ---- the rollback command (SpecRollback) ----
    rpc,          \* position of Rollback.__call__
    rbk,          \* state of the rollback command
    \* ---- unit discovery and name resolution (SpecDiscovery) ----
    dsc,          \* position of the discovery run
    disc,         \* the definition files, the discovered unit, the resolved names
    \* ---- the SSH connection (SpecConnection) ----
    cpc,          \* position inside connection(host) and SSH2Connection.run/put
    cn,           \* socket, session, channel and buffers of the connection
    \* ---- tolerant substitution (SpecFormat) ----
    fpc,          \* position of the substitution run
    fmt,          \* template, bound keys, result and unresolved keys
    \* ---- the scale command (SpecScale) ----
    spc,          \* position of Scale.__call__
    scl            \* definition files, replica map and bookkeeping of scale

installVars == <<ipc, cfg, sysFiles, wantsFiles, dropinDirs, unitState, marker,
                 restartRc, failedUnits, exitCode, cause, opsLog, caddy>>
deployVars == <<dpc, flags, remote, up, inst, rb, outcome>>
rollbackVars == <<rpc, rbk>>
discoveryVars == <<dsc, disc>>
connVars == <<cpc, cn>>
formatVars == <<fpc, fmt>>
scaleVars == <<spc, scl>>
vars == <<installVars, deployVars, rollbackVars, discoveryVars, connVars, formatVars,
          scaleVars>>

(***************************************************************************)
(* Exit codes of the installer                                             *)
(***************************************************************************)
EXIT_SUCCESS == 0
EXIT_GENERAL_ERROR == 1
EXIT_VALIDATION_ERROR == 2
EXIT_SERVICE_START_FAILED == 3

(***************************************************************************)
(* Bounds                                                                  *)
(***************************************************************************)
MaxReplicas == 2
MaxDown == 1
MaxAttempts == 3

(***************************************************************************)
(* Strings as token sequences                                              *)
(***************************************************************************)
StartsWith(s, p) == Len(s) >= Len(p) /\ SubSeq(s, 1, Len(p)) = p

EndsWith(s, p) == Len(s) >= Len(p) /\ SubSeq(s, Len(s) - Len(p) + 1, Len(s)) = p

None == <<>>

IdxStr == <<"1", "2", "3", "4">>

AppName == <<"book">>
OtherApp == <<"book", "store">>

(***************************************************************************)
(* The manifest's unit descriptors                                         *)
(***************************************************************************)
TemplateServiceName(app, name, replicas) ==
    IF replicas > 1 THEN app \o <<"-", name, "@", ".service">>
                    ELSE app \o <<"-", name, ".service">>

ServiceInstances(app, name, replicas) ==
    IF replicas > 1
    THEN {app \o <<"-", name, "@", IdxStr[i], ".service">> : i \in 1..replicas}
    ELSE {TemplateServiceName(app, name, replicas)}

DeployedUnit(app, name, replicas, hasSocket, hasTimer) ==
    [name |-> name,
     replicas |-> replicas,
     is_template |-> replicas > 1,
     service_instances |-> ServiceInstances(app, name, replicas),
     template_service_name |-> TemplateServiceName(app, name, replicas),
     template_socket_name |-> IF hasSocket THEN app \o <<"-", name, ".socket">> ELSE None,
     template_timer_name |-> IF hasTimer THEN app \o <<"-", name, ".timer">> ELSE None]


(***************************************************************************)
(* Inputs of the installer: the manifests a bundle can carry and the unit  *)
(* files a host can hold before the run                                    *)
(***************************************************************************)
WebChoices == {{}, {DeployedUnit(AppName, "web", 1, TRUE, FALSE)},
               {DeployedUnit(AppName, "web", 1, FALSE, FALSE)}}

WorkerChoices == {{}} \cup {{DeployedUnit(AppName, "worker", r, FALSE, FALSE)} : r \in 1..MaxReplicas}

JobChoices == {{}, {DeployedUnit(AppName, "job", 1, FALSE, TRUE)}}

Manifests == {w \cup k \cup j : w \in WebChoices, k \in WorkerChoices, j \in JobChoices} \ {{}}

HostUnitNames ==
    {AppName \o <<"-", "web", ".service">>,
     AppName \o <<"-", "api", ".service">>,
     AppName \o <<"-", "api", ".socket">>,
     AppName \o <<"-", "worker", "@", ".service">>,
     OtherApp \o <<"-", "web", ".service">>,
     <<"nginx", ".service">>}

Versions == {"v1", "v2", "v3"}

(***************************************************************************)
(* install(): the unit sets it computes                                    *)
(***************************************************************************)
ValidUnits(units) ==
    {u.template_service_name : u \in units}
        \cup {u.template_socket_name : u \in {x \in units : x.template_socket_name # None}}
        \cup {u.template_timer_name : u \in {x \in units : x.template_timer_name # None}}

Glob(dir, prefix) == {f \in dir : StartsWith(f, prefix)}

InstalledUnitsOfHost(files, app) == files

InstalledUnits(files, app) == Glob(files, app)

StaleUnits(files, app, valid) == {u \in InstalledUnits(files, app) : u \notin valid}

IsTemplateFileNever(unit) == FALSE

IsTemplateFile(unit) == EndsWith(unit, <<"@", ".service">>)

ActiveUnitsWithTemplates(units) ==
    UNION {u.service_instances \cup {u.template_service_name} : u \in units}
        \cup {u.template_socket_name : u \in {x \in units : x.template_socket_name # None}}
        \cup {u.template_timer_name : u \in {x \in units : x.template_timer_name # None}}

ActiveUnits(units) ==
    UNION {u.service_instances : u \in units}
        \cup {u.template_socket_name : u \in {x \in units : x.template_socket_name # None}}
        \cup {u.template_timer_name : u \in {x \in units : x.template_timer_name # None}}

UnitsToCheckAll(units) == UNION {u.service_instances : u \in units}

UnitsToCheck(units) ==
    UNION {u.service_instances :
             u \in {x \in units : ~(x.template_socket_name # None \/ x.template_timer_name # None)}}

ServicesFailedOnlyInactive(rc, failed) == failed # {}

ServicesFailedNever(rc, failed) == FALSE

ServicesFailed(rc, failed) == rc # 0 \/ failed # {}

DropinDirName(service) == service \o <<".d">>

IsDropinDir(name) == EndsWith(name, <<".d">>)

(***************************************************************************)
(* The installer process: main() and install()                             *)
(***************************************************************************)
\* `synced` and `before` record that phase 3 ran and what it found on the host
\* the host as a completed run left it (none yet)
NoSnapshot == [done |-> FALSE, sysFiles |-> {}, wantsFiles |-> {}, dropinDirs |-> {},
               marker |-> "none"]

NoOps == [stopped |-> {}, disabled |-> {}, reset |-> {}, removed |-> {}, written |-> {},
          synced |-> FALSE, before |-> {},
          polled |-> {}, polled_done |-> FALSE, after_restart |-> <<>>,
          enabled |-> {}, restarted |-> {}, package_rc |-> 0, steps |-> <<>>,
          run1 |-> NoSnapshot]

\* contents of the proxy's configuration file: absent, empty, the one of an
\* earlier deployment, the bundle's Caddyfile
NoContent == "none"

ConfigContents == {"absent", "", "old", "new"}

NoCaddy(before) == [before |-> before, config |-> before, old_config_content |-> NoContent,
                    reloads |-> 0, reload_failed |-> FALSE, modified |-> FALSE]

InstallIdle ==
    /\ ipc = "idle"
    /\ cfg = [app_name |-> AppName, version |-> "v1", deployed_units |-> {},
              webserver_enabled |-> FALSE, installation_mode |-> "binary",
              full_restart |-> FALSE]
    /\ caddy = NoCaddy("absent")
    /\ sysFiles = {}
    /\ wantsFiles = {}
    /\ dropinDirs = {}
    /\ unitState = <<>>
    /\ marker = "none"
    /\ restartRc = 0
    /\ failedUnits = {}
    /\ exitCode = -1
    /\ cause = "none"
    /\ opsLog = NoOps

\* an enable symlink of a template instance points at the template's unit file
IsInstanceName(f) == Len(f) >= 3 /\ f[Len(f) - 2] = "@" /\ f[Len(f)] = ".service"

SymlinkTarget(f) == IF IsInstanceName(f) THEN SubSeq(f, 1, Len(f) - 2) \o <<".service">>
                                         ELSE f

FirstInstance(t) == SubSeq(t, 1, Len(t) - 1) \o <<"1", ".service">>

\* what `systemctl enable` of an earlier run left in the wants directory
EnabledBefore(files) ==
    {f \in files : ~IsTemplateFile(f)} \cup {FirstInstance(t) : t \in {f \in files : IsTemplateFile(f)}}

DropinsBefore(files) == {DropinDirName(f) : f \in {x \in files : EndsWith(x, <<".service">>)}}

\* installation_mode of config.json
InstallationModes == {"python-package", "binary"}

\* the start of a run, for the given choices of host unit files, proxy setting,
\* earlier proxy configuration, installation mode and --full-restart flag
InstallInitOf(hostSets, proxySettings, configsBefore, modes, restartFlags) ==
    /\ ipc = "args"
    /\ cfg \in [app_name : {AppName}, version : {"v2"}, deployed_units : Manifests,
                webserver_enabled : proxySettings, installation_mode : modes,
                full_restart : restartFlags]
    /\ caddy \in {NoCaddy(b) : b \in configsBefore}
    /\ sysFiles \in hostSets
    /\ wantsFiles = EnabledBefore(sysFiles)
    /\ dropinDirs = DropinsBefore(sysFiles)
    /\ unitState = [u \in {} |-> "inactive"]
    /\ marker = "v1"
    /\ restartRc = 0
    /\ failedUnits = {}
    /\ exitCode = -1
    /\ cause = "none"
    /\ opsLog = NoOps

\* every host unit directory, a proxy with an earlier configuration
\* a binary bundle installed without --full-restart
InstallInitWith(hostSets, proxySettings, configsBefore) ==
    InstallInitOf(hostSets, proxySettings, configsBefore, {"binary"}, {FALSE})

InstallInit == InstallInitWith(SUBSET HostUnitNames, {TRUE}, {"old"})

\* one host unit directory, every proxy setting and earlier configuration
ProxyHostUnits == {AppName \o <<"-", "web", ".service">>, <<"nginx", ".service">>}

InstallInitProxy == InstallInitWith({ProxyHostUnits}, BOOLEAN, ConfigContents \ {"new"})

\* the unit files a host holds before the first of two runs
RerunHostUnits ==
    {AppName \o <<"-", "web", ".service">>,
     AppName \o <<"-", "api", ".service">>,
     AppName \o <<"-", "worker", "@", ".service">>}

InstallInitRerun == InstallInitWith(SUBSET RerunHostUnits, {TRUE}, {"old"})

\* one host unit directory, both installation modes, with and without
\* --full-restart
InstallInitModes ==
    InstallInitOf({ProxyHostUnits}, {TRUE}, {"old"}, InstallationModes, BOOLEAN)

Exit(code, why) ==
    /\ ipc' = "exited"
    /\ exitCode' = code
    /\ cause' = why

\* main(): argparse rejects a bad command line with status 2
ParseArgs ==
    /\ ipc = "args"
    /\ \E ok \in BOOLEAN :
         IF ok THEN ipc' = "extract" /\ UNCHANGED <<exitCode, cause>>
               ELSE Exit(EXIT_VALIDATION_ERROR, "usage")
    /\ UNCHANGED <<cfg, sysFiles, wantsFiles, dropinDirs, unitState, marker, restartRc,
                   failedUnits, opsLog>>
    /\ UNCHANGED <<caddy, deployVars, rollbackVars, discoveryVars, connVars, formatVars, scaleVars>>

\* main(): extract the zipapp and load config.json
Extract ==
    /\ ipc = "extract"
    /\ ipc' = "dirsetup"
    /\ UNCHANGED <<cfg, sysFiles, wantsFiles, dropinDirs, unitState, marker, restartRc,
                   failedUnits, exitCode, cause, opsLog>>
    /\ UNCHANGED <<caddy, deployVars, rollbackVars, discoveryVars, connVars, formatVars, scaleVars>>

\* install() phase 1: user, app dir, .install dir, .env
DirectorySetup ==
    /\ ipc = "dirsetup"
    /\ ipc' = "record"
    /\ UNCHANGED <<cfg, sysFiles, wantsFiles, dropinDirs, unitState, marker, restartRc,
                   failedUnits, exitCode, cause, opsLog>>
    /\ UNCHANGED <<caddy, deployVars, rollbackVars, discoveryVars, connVars, formatVars, scaleVars>>

\* install() phase 2, first statement: record the version marker
RecordVersion ==
    /\ ipc = "record"
    /\ marker' = cfg.version
    /\ ipc' = "package"
    /\ UNCHANGED <<cfg, sysFiles, wantsFiles, dropinDirs, unitState, restartRc,
                   failedUnits, exitCode, cause, opsLog>>
    /\ UNCHANGED <<caddy, deployVars, rollbackVars, discoveryVars, connVars, formatVars, scaleVars>>

\* install() phase 2: `uv venv` and `uv pip install` for a python package,
\* run with check=False so that the return code is not looked at, or the
\* copy of the binary
PackageInstall ==
    /\ ipc = "package"
    /\ IF cfg.installation_mode = "python-package"
       THEN \E rc \in {0, 1} :
              /\ opsLog' = [opsLog EXCEPT !.package_rc = rc]
              /\ ipc' = "perm"
       ELSE /\ opsLog' = opsLog
            /\ ipc' = "perm"
    /\ UNCHANGED <<cfg, sysFiles, wantsFiles, dropinDirs, unitState, marker, restartRc,
                   failedUnits, exitCode, cause>>
    /\ UNCHANGED <<caddy, deployVars, rollbackVars, discoveryVars, connVars, formatVars, scaleVars>>

\* install(): ownership and modes of the .install directory
PermissionFix ==
    /\ ipc = "perm"
    /\ ipc' = "unitsync"
    /\ UNCHANGED <<cfg, sysFiles, wantsFiles, dropinDirs, unitState, marker, restartRc,
                   failedUnits, exitCode, cause, opsLog>>
    /\ UNCHANGED <<caddy, deployVars, rollbackVars, discoveryVars, connVars, formatVars, scaleVars>>

\* install() phase 3: stale units, stale files, drop-in directories, new files
UnitSync ==
    /\ ipc = "unitsync"
    /\ LET app == cfg.app_name
           valid == ValidUnits(cfg.deployed_units)
           stale == StaleUnits(sysFiles, app, valid)
           goneSys == {f \in Glob(sysFiles, app) : f \notin valid}
           sysAfter == sysFiles \ goneSys
           \* `systemctl disable` removes the unit's enable symlinks
           wantsAfterDisable == {f \in wantsFiles : SymlinkTarget(f) \notin stale}
           \* a symlink whose unit file was just unlinked is no regular file
           goneWants == {f \in Glob(wantsAfterDisable, app) :
                            f \notin valid /\ SymlinkTarget(f) \in sysAfter}
           goneDirs == {d \in Glob(dropinDirs, app) : IsDropinDir(d)}
       IN /\ opsLog' = [opsLog EXCEPT
                 !.disabled = @ \cup stale,
                 !.stopped = @ \cup {u \in stale : ~IsTemplateFile(u)},
                 !.reset = @ \cup stale,
                 !.removed = @ \cup goneSys \cup goneWants \cup goneDirs,
                 !.written = @ \cup valid,
                 !.synced = TRUE,
                 !.before = sysFiles,
                 !.steps = Append(@, "write units")]
          /\ sysFiles' = sysAfter \cup valid
          /\ wantsFiles' = wantsAfterDisable \ goneWants
          /\ dropinDirs' = dropinDirs \ goneDirs
    /\ ipc' = "enable"
    /\ UNCHANGED <<cfg, unitState, marker, restartRc, failedUnits, exitCode, cause>>
    /\ UNCHANGED <<caddy, deployVars, rollbackVars, discoveryVars, connVars, formatVars, scaleVars>>

\* comparison: only units whose file was not on the host before are enabled
EnableListNotYetInstalled(units) ==
    {n \in ActiveUnits(units) : SymlinkTarget(n) \notin opsLog.before}

\* units_str of the enable command
EnableList(units) == ActiveUnits(units)

\* install(): daemon-reload && enable, run with check=True
EnableUnits ==
    /\ ipc = "enable"
    /\ \E rc \in {0, 1} :
         IF rc = 0
         THEN /\ wantsFiles' = wantsFiles \cup EnableList(cfg.deployed_units)
              /\ ipc' = "restart"
              /\ UNCHANGED <<exitCode, cause>>
         ELSE /\ Exit(EXIT_GENERAL_ERROR, "enable")
              /\ UNCHANGED wantsFiles
    /\ opsLog' = [opsLog EXCEPT !.enabled = EnableList(cfg.deployed_units),
                                !.steps = @ \o <<"daemon-reload", "enable">>]
    /\ UNCHANGED <<cfg, sysFiles, dropinDirs, unitState, marker, restartRc, failedUnits>>
    /\ UNCHANGED <<caddy, deployVars, rollbackVars, discoveryVars, connVars, formatVars, scaleVars>>

\* comparison: always reload-or-restart
RestartCmdReloadOnly(full_restart) == "reload-or-restart"

\* restart_cmd = "restart" if full_restart else "reload-or-restart"
RestartCmd(full_restart) == IF full_restart THEN "restart" ELSE "reload-or-restart"

\* install(): systemctl restart / reload-or-restart of every runtime unit
Restart ==
    /\ ipc = "restart"
    /\ \E rc \in {0, 1} :
         /\ restartRc' = rc
         /\ \E down \in SUBSET ActiveUnits(cfg.deployed_units) :
              /\ Cardinality(down) <= MaxDown
              /\ rc = 0 => down = {}
              /\ unitState' = [u \in ActiveUnits(cfg.deployed_units) |->
                                  IF u \in down THEN "failed" ELSE "active"]
    /\ opsLog' = [opsLog EXCEPT !.after_restart = unitState',
                                !.restarted = ActiveUnits(cfg.deployed_units),
                                !.steps = Append(@, RestartCmd(cfg.full_restart))]
    /\ ipc' = "grace"
    /\ UNCHANGED <<cfg, sysFiles, wantsFiles, dropinDirs, marker, failedUnits,
                   exitCode, cause>>
    /\ UNCHANGED <<caddy, deployVars, rollbackVars, discoveryVars, connVars, formatVars, scaleVars>>

\* install(): time.sleep(2); a unit that came up may crash meanwhile
Grace ==
    /\ ipc = "grace"
    /\ \E crashed \in SUBSET ActiveUnits(cfg.deployed_units) :
         /\ Cardinality(crashed) <= MaxDown
         /\ unitState' = [u \in DOMAIN unitState |->
                             IF u \in crashed THEN "failed" ELSE unitState[u]]
    /\ ipc' = "health"
    /\ UNCHANGED <<cfg, sysFiles, wantsFiles, dropinDirs, marker, restartRc,
                   failedUnits, exitCode, cause, opsLog>>
    /\ UNCHANGED <<caddy, deployVars, rollbackVars, discoveryVars, connVars, formatVars, scaleVars>>

\* the activation states `systemctl is-active` reports: those the units have when
\* the command runs, which is after the sleep
SampledBeforeSleep(atRestart, afterSleep) == atRestart

Sampled(atRestart, afterSleep) == afterSleep

\* install(): systemctl is-active for every unit to check
HealthVerify ==
    /\ ipc = "health"
    /\ failedUnits' = {u \in UnitsToCheck(cfg.deployed_units) :
                          Sampled(opsLog.after_restart, unitState)[u] # "active"}
    /\ opsLog' = [opsLog EXCEPT !.polled = UnitsToCheck(cfg.deployed_units),
                                !.polled_done = TRUE,
                                !.steps = Append(@, "is-active")]
    /\ ipc' = "verdict"
    /\ UNCHANGED <<cfg, sysFiles, wantsFiles, dropinDirs, unitState, marker, restartRc,
                   exitCode, cause>>
    /\ UNCHANGED <<caddy, deployVars, rollbackVars, discoveryVars, connVars, formatVars, scaleVars>>

\* install(): the service-start-failure branch, or on to the proxy
Verdict ==
    /\ ipc = "verdict"
    /\ IF ServicesFailed(restartRc, failedUnits)
       THEN Exit(EXIT_SERVICE_START_FAILED, "services")
       ELSE ipc' = "caddy" /\ UNCHANGED <<exitCode, cause>>
    /\ UNCHANGED <<cfg, sysFiles, wantsFiles, dropinDirs, unitState, marker, restartRc,
                   failedUnits, opsLog>>
    /\ UNCHANGED <<caddy, deployVars, rollbackVars, discoveryVars, connVars, formatVars, scaleVars>>

\* install() phase 4: without a proxy the run is over; with one, the previous
\* configuration is read and the bundle's Caddyfile copied over it
ReadOldConfig(config) == IF config = "absent" THEN NoContent ELSE config

ConfigureCaddy ==
    /\ ipc = "caddy"
    /\ IF cfg.webserver_enabled
       THEN /\ caddy' = [caddy EXCEPT !.old_config_content = ReadOldConfig(caddy.config),
                                      !.config = "new",
                                      !.modified = TRUE]
            /\ ipc' = "caddy_reload"
            /\ UNCHANGED <<exitCode, cause>>
       ELSE /\ Exit(EXIT_SUCCESS, "completed")
            /\ UNCHANGED caddy
    /\ UNCHANGED <<cfg, sysFiles, wantsFiles, dropinDirs, unitState, marker, restartRc,
                   failedUnits, opsLog>>
    /\ UNCHANGED <<deployVars, rollbackVars, discoveryVars, connVars, formatVars, scaleVars>>

\* install(): systemctl reload caddy with a timeout of 20 seconds
CaddyReload ==
    /\ ipc = "caddy_reload"
    /\ \E result \in {"ok", "failed", "timeout"} :
         caddy' = [caddy EXCEPT !.reloads = @ + 1, !.reload_failed = result # "ok"]
    /\ ipc' = "caddy_result"
    /\ UNCHANGED <<cfg, sysFiles, wantsFiles, dropinDirs, unitState, marker, restartRc,
                   failedUnits, exitCode, cause, opsLog>>
    /\ UNCHANGED <<deployVars, rollbackVars, discoveryVars, connVars, formatVars, scaleVars>>

\* `if old_config_content:` is the truth value of a str | None
\* (the test `is not None`, for comparison)
HasOldConfigIfRead(old) == old # NoContent

HasOldConfig(old) == old # NoContent /\ old # ""

\* install(): restore or remove after a failed reload, then the return of main()
CaddyResult ==
    /\ ipc = "caddy_result"
    /\ caddy' = IF caddy.reload_failed
                THEN [caddy EXCEPT !.config = IF HasOldConfig(caddy.old_config_content)
                                              THEN caddy.old_config_content
                                              ELSE "absent"]
                ELSE caddy
    /\ Exit(EXIT_SUCCESS, "completed")
    /\ UNCHANGED <<cfg, sysFiles, wantsFiles, dropinDirs, unitState, marker, restartRc,
                   failedUnits, opsLog>>
    /\ UNCHANGED <<deployVars, rollbackVars, discoveryVars, connVars, formatVars, scaleVars>>

\* main() is started a second time with the same bundle on the host the first
\* run left
Reinstall ==
    /\ ipc = "exited"
    /\ exitCode = EXIT_SUCCESS
    /\ ~opsLog.run1.done
    /\ opsLog' = [NoOps EXCEPT !.run1 = [done |-> TRUE, sysFiles |-> sysFiles,
                                         wantsFiles |-> wantsFiles,
                                         dropinDirs |-> dropinDirs, marker |-> marker]]
    /\ ipc' = "args"
    /\ exitCode' = -1
    /\ cause' = "none"
    /\ restartRc' = 0
    /\ failedUnits' = {}
    /\ UNCHANGED <<cfg, sysFiles, wantsFiles, dropinDirs, unitState, marker>>
    /\ UNCHANGED <<caddy, deployVars, rollbackVars, discoveryVars, connVars, formatVars, scaleVars>>

ProxySteps == {"caddy", "caddy_reload", "caddy_result"}

\* main(): `except Exception` around extraction and install() ends with status 1
RaisingSteps == {"extract", "dirsetup", "record", "package", "perm", "unitsync", "caddy",
                 "caddy_reload"}

InstallerException ==
    /\ ipc \in RaisingSteps
    /\ Exit(EXIT_GENERAL_ERROR, "exception")
    /\ UNCHANGED <<cfg, sysFiles, wantsFiles, dropinDirs, unitState, marker, restartRc,
                   failedUnits, opsLog>>
    /\ UNCHANGED <<caddy, deployVars, rollbackVars, discoveryVars, connVars, formatVars, scaleVars>>


(***************************************************************************)
(* The deploy command, from the upload onwards                             *)
(***************************************************************************)
NewVersion == "v3"
OldVersions == {"v1", "v2"}

MinRsyncSize == 30720

BundleSizes == {MinRsyncSize - 1, MinRsyncSize}

\* versions in `ls -1t` order, newest first: a higher version was written later
Age(v) == CASE v = "v3" -> 0 [] v = "v2" -> 1 [] v = "v1" -> 2

Retained(r) == r.versions \cup (IF r.final # "none" THEN {NewVersion} ELSE {})

Newest(vs) == CHOOSE v \in vs : \A w \in vs : Age(v) <= Age(w)

NoUpload == [use_rsync |-> FALSE, attempts |-> 0, prompts |-> 0, verified |-> FALSE,
             matched |-> FALSE, declined |-> FALSE, first_mismatch |-> FALSE,
             put_done |-> FALSE, rsync_runs |-> 0]

NoInstall == [invoked |-> FALSE, code |-> -1]

NoRollback == [prompted |-> FALSE, attempted |-> FALSE, rollback_ran |-> FALSE,
               rollback_succeeded |-> FALSE, target |-> "none", pending |-> "none"]

Running == [status |-> "running", error |-> "none", code |-> 0,
            success_message |-> FALSE, audited |-> FALSE, pruned |-> FALSE,
            pruned_away |-> {}, asked |-> FALSE, confirmed |-> FALSE,
            connected |-> FALSE]

DeployIdle ==
    /\ dpc = "idle"
    /\ flags = [no_input |-> FALSE, no_rollback |-> FALSE, bundle_size |-> 0,
                remote_rsync |-> FALSE, versions_to_keep |-> 0]
    /\ remote = [versions |-> {}, final |-> "none", tmp |-> "none", staging |-> "none",
                 marker |-> "none"]
    /\ up = NoUpload
    /\ inst = NoInstall
    /\ rb = NoRollback
    /\ outcome = Running

\* versions_to_keep: 0 stands for a retention that is not configured
RetentionCounts == {0, 1, 2}

DeployInit ==
    /\ dpc = "summary"
    /\ flags \in [no_input : BOOLEAN, no_rollback : BOOLEAN, bundle_size : BundleSizes,
                  remote_rsync : BOOLEAN, versions_to_keep : RetentionCounts]
    /\ \E vs \in SUBSET OldVersions :
         remote = [versions |-> vs, final |-> "none", tmp |-> "none", staging |-> "none",
                   marker |-> IF vs = {} THEN "none" ELSE Newest(vs)]
    /\ up = NoUpload
    /\ inst = NoInstall
    /\ rb = NoRollback
    /\ outcome = Running

Fail(error, code) ==
    /\ dpc' = "ended"
    /\ outcome' = [outcome EXCEPT !.status = "error", !.error = error, !.code = code]

\* comparison: the summary never asks
NeedsConfirmationNever(no_input) == FALSE

\* _show_deployment_summary: `if not self.no_input:`
NeedsConfirmation(no_input) == ~no_input

\* _show_deployment_summary: the summary panel, then Confirm.ask unless
\* --no-input; a refusal or an interrupt ends the command with status 0
ShowDeploymentSummary ==
    /\ dpc = "summary"
    /\ IF NeedsConfirmation(flags.no_input)
       THEN \E answer \in {"yes", "no", "KeyboardInterrupt"} :
              IF answer = "yes"
              THEN /\ outcome' = [outcome EXCEPT !.asked = TRUE, !.confirmed = TRUE]
                   /\ dpc' = "connect"
              ELSE /\ outcome' = [outcome EXCEPT !.asked = TRUE, !.status = "cancelled",
                                                 !.error = "Deployment cancelled", !.code = 0]
                   /\ dpc' = "ended"
       ELSE outcome' = outcome /\ dpc' = "connect"
    /\ UNCHANGED <<flags, remote, up, inst, rb>>
    /\ UNCHANGED <<installVars, rollbackVars, discoveryVars, connVars, formatVars, scaleVars>>

\* with self.connection() as conn
DeployConnect ==
    /\ dpc = "connect"
    /\ \E ok \in BOOLEAN :
         IF ok
         THEN outcome' = [outcome EXCEPT !.connected = TRUE] /\ dpc' = "mkdir"
         ELSE Fail("ConnectionError", 1)
    /\ UNCHANGED <<flags, remote, up, inst, rb>>
    /\ UNCHANGED <<installVars, rollbackVars, discoveryVars, connVars, formatVars, scaleVars>>

\* mkdir -p of the versions directory, with the rsync probe for a large bundle
UseRsync(size, remoteHasRsync) == size >= MinRsyncSize /\ remoteHasRsync

DeployMkdir ==
    /\ dpc = "mkdir"
    /\ up' = [up EXCEPT !.use_rsync = UseRsync(flags.bundle_size, flags.remote_rsync)]
    /\ dpc' = IF UseRsync(flags.bundle_size, flags.remote_rsync) THEN "rsync" ELSE "put"
    /\ UNCHANGED <<flags, remote, inst, rb, outcome>>
    /\ UNCHANGED <<installVars, rollbackVars, discoveryVars, connVars, formatVars, scaleVars>>

\* conn.rsync_upload to the staging file; both exceptions fall back to put
RsyncUpload ==
    /\ dpc = "rsync"
    /\ \E result \in {"ok", "FileNotFoundError", "UploadError"} :
         IF result = "ok"
         THEN /\ remote' = [remote EXCEPT !.staging = "good"]
              /\ up' = [up EXCEPT !.rsync_runs = @ + 1]
              /\ dpc' = "cp"
         ELSE /\ remote' = [remote EXCEPT !.staging =
                               IF result = "UploadError" THEN "partial" ELSE @]
              /\ up' = [up EXCEPT !.rsync_runs = @ + 1, !.use_rsync = FALSE]
              /\ dpc' = "put"
    /\ UNCHANGED <<flags, inst, rb, outcome>>
    /\ UNCHANGED <<installVars, rollbackVars, discoveryVars, connVars, formatVars, scaleVars>>

\* cp -f staging final: the copy writes the final bundle path in place
CopyStagingBegin ==
    /\ dpc = "cp"
    /\ remote' = [remote EXCEPT !.final = "partial"]
    /\ dpc' = "cp_end"
    /\ UNCHANGED <<flags, up, inst, rb, outcome>>
    /\ UNCHANGED <<installVars, rollbackVars, discoveryVars, connVars, formatVars, scaleVars>>

CopyStagingEnd ==
    /\ dpc = "cp_end"
    /\ \E ok \in BOOLEAN :
         IF ok
         THEN /\ remote' = [remote EXCEPT !.final = remote.staging]
              /\ dpc' = "install"
              /\ UNCHANGED outcome
         ELSE /\ Fail("CommandError", 1)
              /\ UNCHANGED remote
    /\ UNCHANGED <<flags, up, inst, rb>>
    /\ UNCHANGED <<installVars, rollbackVars, discoveryVars, connVars, formatVars, scaleVars>>

\* conn.put(local, remote_bundle_path, verify=True)
PutVerifyFlagOff == FALSE

PutVerifyFlag == TRUE

PutTransferBegin ==
    /\ dpc = "put"
    /\ up' = [up EXCEPT !.attempts = @ + 1]
    /\ remote' = IF PutVerifyFlag THEN [remote EXCEPT !.tmp = "partial"]
                                  ELSE [remote EXCEPT !.final = "partial"]
    /\ dpc' = "put_end"
    /\ UNCHANGED <<flags, inst, rb, outcome>>
    /\ UNCHANGED <<installVars, rollbackVars, discoveryVars, connVars, formatVars, scaleVars>>

PutTransferEnd ==
    /\ dpc = "put_end"
    /\ \E content \in {"good", "bad"} :
         IF PutVerifyFlag
         THEN /\ remote' = [remote EXCEPT !.tmp = content]
              /\ dpc' = "put_verify"
              /\ UNCHANGED up
         ELSE /\ remote' = [remote EXCEPT !.final = content]
              /\ up' = [up EXCEPT !.put_done = TRUE]
              /\ dpc' = "install"
    /\ UNCHANGED <<flags, inst, rb, outcome>>
    /\ UNCHANGED <<installVars, rollbackVars, discoveryVars, connVars, formatVars, scaleVars>>

\* the digest recomputed on the host is compared with the local one
PutVerify ==
    /\ dpc = "put_verify"
    /\ IF remote.tmp = "good"
       THEN /\ up' = [up EXCEPT !.matched = TRUE]
            /\ dpc' = "put_rename"
       ELSE /\ up' = [up EXCEPT !.first_mismatch = IF up.attempts = 1 THEN TRUE ELSE @]
            /\ dpc' = "put_remove"
    /\ UNCHANGED <<flags, remote, inst, rb, outcome>>
    /\ UNCHANGED <<installVars, rollbackVars, discoveryVars, connVars, formatVars, scaleVars>>

PutRename ==
    /\ dpc = "put_rename"
    /\ remote' = [remote EXCEPT !.final = remote.tmp, !.tmp = "none"]
    /\ up' = [up EXCEPT !.verified = TRUE, !.put_done = TRUE]
    /\ dpc' = "install"
    /\ UNCHANGED <<flags, inst, rb, outcome>>
    /\ UNCHANGED <<installVars, rollbackVars, discoveryVars, connVars, formatVars, scaleVars>>

\* after a mismatch: give up when the attempts are used up or no prompt is allowed
GivesUpOnlyWhenExhausted(attempts, noInput) == attempts >= MaxAttempts

GivesUp(attempts, noInput) == attempts >= MaxAttempts \/ noInput

PutRemoveTemp ==
    /\ dpc = "put_remove"
    /\ remote' = [remote EXCEPT !.tmp = "none"]
    /\ IF GivesUp(up.attempts, flags.no_input)
       THEN /\ Fail("UploadError", 1)
            /\ up' = [up EXCEPT !.put_done = TRUE]
       ELSE /\ dpc' = "put_prompt"
            /\ UNCHANGED <<up, outcome>>
    /\ UNCHANGED <<flags, inst, rb>>
    /\ UNCHANGED <<installVars, rollbackVars, discoveryVars, connVars, formatVars, scaleVars>>

PutPrompt ==
    /\ dpc = "put_prompt"
    /\ \E retry \in BOOLEAN :
         IF retry
         THEN /\ up' = [up EXCEPT !.prompts = @ + 1]
              /\ dpc' = "put"
              /\ UNCHANGED outcome
         ELSE /\ up' = [up EXCEPT !.prompts = @ + 1, !.declined = TRUE, !.put_done = TRUE]
              /\ Fail("UploadError", 1)
    /\ UNCHANGED <<flags, remote, inst, rb>>
    /\ UNCHANGED <<installVars, rollbackVars, discoveryVars, connVars, formatVars, scaleVars>>

\* the process is terminated while it uploads
UploadSteps == {"rsync", "cp", "cp_end", "put", "put_end", "put_verify", "put_rename",
                "put_remove", "put_prompt"}

Interrupt ==
    /\ dpc \in UploadSteps
    /\ Fail("Interrupted", 130)
    /\ UNCHANGED <<flags, remote, up, inst, rb>>
    /\ UNCHANGED <<installVars, rollbackVars, discoveryVars, connVars, formatVars, scaleVars>>


\* what one run of the installer of `version` can leave behind: the marker is
\* written in phase 2, before any step that ends with status 0 or 3
InstallerOutcomes(version, before) ==
    {[code |-> EXIT_SUCCESS, marker |-> version],
     [code |-> EXIT_SERVICE_START_FAILED, marker |-> version],
     [code |-> EXIT_GENERAL_ERROR, marker |-> version],
     [code |-> EXIT_GENERAL_ERROR, marker |-> before],
     [code |-> EXIT_VALIDATION_ERROR, marker |-> before]}

\* conn.run(install_cmd, pty=True): warn is false, a non-zero status raises
DeployInstall ==
    /\ dpc = "install"
    /\ \E o \in InstallerOutcomes(NewVersion, remote.marker) :
         /\ inst' = [invoked |-> TRUE, code |-> o.code]
         /\ remote' = [remote EXCEPT !.marker = o.marker]
    /\ dpc' = "install_result"
    /\ UNCHANGED <<flags, up, rb, outcome>>
    /\ UNCHANGED <<installVars, rollbackVars, discoveryVars, connVars, formatVars, scaleVars>>

IsServiceStartFailureOrValidation(code) == code >= EXIT_VALIDATION_ERROR

IsServiceStartFailure(code) == code = EXIT_SERVICE_START_FAILED

\* except CommandError as e: the branches before the rollback prompt
HandleInstallResult ==
    /\ dpc = "install_result"
    /\ IF inst.code = 0
       THEN dpc' = "prune" /\ UNCHANGED outcome
       ELSE IF ~IsServiceStartFailure(inst.code)
       THEN Fail("DeploymentError", inst.code)
       ELSE IF flags.no_rollback
       THEN Fail("DeploymentError", inst.code)
       ELSE dpc' = "rb_prompt" /\ UNCHANGED outcome
    /\ UNCHANGED <<flags, remote, up, inst, rb>>
    /\ UNCHANGED <<installVars, rollbackVars, discoveryVars, connVars, formatVars, scaleVars>>

\* `self.no_input or Confirm.ask(...)`, with its else and its KeyboardInterrupt
RollbackPrompt ==
    /\ dpc = "rb_prompt"
    /\ IF flags.no_input
       THEN dpc' = "rollback" /\ UNCHANGED rb
       ELSE \E answer \in {"yes", "no", "interrupt"} :
              /\ rb' = [rb EXCEPT !.prompted = TRUE,
                                  !.pending = IF answer = "no" THEN "DeploymentError" ELSE @]
              /\ dpc' = IF answer = "yes" THEN "rollback" ELSE "cleanup"
    /\ UNCHANGED <<flags, remote, up, inst, outcome>>
    /\ UNCHANGED <<installVars, rollbackVars, discoveryVars, connVars, formatVars, scaleVars>>

\* Rollback(previous=True, strict=True): the most recent retained bundle other
\* than the active version is installed from the host, without a prompt
RollbackTargetsAll(r) == Retained(r)

RollbackTargets(r) == Retained(r) \ {r.marker}

RunRollback ==
    /\ dpc = "rollback"
    /\ IF RollbackTargets(remote) = {}
       THEN /\ rb' = [rb EXCEPT !.attempted = TRUE, !.rollback_ran = TRUE]
            /\ UNCHANGED remote
       ELSE LET target == Newest(RollbackTargets(remote))
            IN \E o \in InstallerOutcomes(target, remote.marker) :
                 /\ remote' = [remote EXCEPT !.marker = o.marker]
                 /\ rb' = IF o.code = 0
                          THEN [rb EXCEPT !.attempted = TRUE, !.target = target,
                                          !.rollback_ran = TRUE,
                                          !.rollback_succeeded = TRUE]
                          ELSE [rb EXCEPT !.attempted = TRUE, !.target = target,
                                          !.pending = "CommandError"]
    /\ dpc' = "cleanup"
    /\ UNCHANGED <<flags, up, inst, outcome>>
    /\ UNCHANGED <<installVars, rollbackVars, discoveryVars, connVars, formatVars, scaleVars>>

\* finally: rm -f of the failed bundle, then the pending exception if any
RemoveBundleSkipped(r) == r

RemoveBundle(r) == [r EXCEPT !.final = "none"]

RemoveFailedBundle ==
    /\ dpc = "cleanup"
    /\ remote' = RemoveBundle(remote)
    /\ IF rb.pending # "none"
       THEN Fail(rb.pending, inst.code)
       ELSE dpc' = "prune" /\ UNCHANGED outcome
    /\ UNCHANGED <<flags, up, inst, rb>>
    /\ UNCHANGED <<installVars, rollbackVars, discoveryVars, connVars, formatVars, scaleVars>>

\* ls -1t | tail -n +(keep+1) | xargs -r rm
Kept(vs, keep) == {v \in vs : Cardinality({w \in vs : Age(w) < Age(v)}) < keep}

Prune ==
    /\ dpc = "prune"
    /\ IF flags.versions_to_keep # 0 /\ ~rb.rollback_ran
       THEN /\ remote' = [remote EXCEPT
                  !.versions = Kept(Retained(remote), flags.versions_to_keep) \ {NewVersion},
                  !.final = IF NewVersion \in Kept(Retained(remote), flags.versions_to_keep)
                            THEN @ ELSE "none"]
            /\ outcome' = [outcome EXCEPT
                  !.pruned = TRUE,
                  !.pruned_away = Retained(remote) \ Kept(Retained(remote), flags.versions_to_keep)]
       ELSE UNCHANGED <<remote, outcome>>
    /\ dpc' = "audit"
    /\ UNCHANGED <<flags, up, inst, rb>>
    /\ UNCHANGED <<installVars, rollbackVars, discoveryVars, connVars, formatVars, scaleVars>>

\* log_operation, then the closing messages
AuditLog ==
    /\ dpc = "audit"
    /\ outcome' = [outcome EXCEPT !.status = "ok", !.audited = TRUE,
                                  !.success_message = ~rb.rollback_ran]
    /\ dpc' = "done"
    /\ UNCHANGED <<flags, remote, up, inst, rb>>
    /\ UNCHANGED <<installVars, rollbackVars, discoveryVars, connVars, formatVars, scaleVars>>


(***************************************************************************)
(* The stand-alone rollback command                                        *)
(***************************************************************************)
BundleExts == {".tar.gz", ".pyz"}

DirEntries == [version : Versions, ext : BundleExts]

\* the names kept by the prefix/suffix filter, as versions
ListedVersions(dir) == {e.version : e \in {x \in dir : x.ext = ".tar.gz"}}

\* the selection that leaves the active version out, for comparison
OfferedWithoutCurrent(dir, active) == ListedVersions(dir) \ {active}

Offered(dir, active) == ListedVersions(dir)

RollbackIdle ==
    /\ rpc = "idle"
    /\ rbk = [dir |-> {}, active |-> "none", current_file |-> "", offered |-> {},
              chosen |-> "none", current_version |-> "", uploads |-> 0,
              uninstalled |-> "none", installed |-> "none", result |-> "running"]

RollbackInit ==
    /\ rpc = "ls"
    /\ \E d \in SUBSET DirEntries, a \in Versions \cup {"none"} :
         \E cf \in {"", IF a = "none" THEN "" ELSE a} :
           rbk = [dir |-> d, active |-> a, current_file |-> cf, offered |-> {},
                  chosen |-> "none", current_version |-> "", uploads |-> 0,
                  uninstalled |-> "none", installed |-> "none", result |-> "running"]

RbEnd(result) ==
    /\ rpc' = "ended"
    /\ rbk' = [rbk EXCEPT !.result = result]

\* ls -1t of the versions directory and the prefix/suffix filter
RbList ==
    /\ rpc = "ls"
    /\ IF Offered(rbk.dir, rbk.active) = {}
       THEN RbEnd("no_targets")
       ELSE /\ rbk' = [rbk EXCEPT !.offered = Offered(rbk.dir, rbk.active)]
            /\ rpc' = "prompt"
    /\ UNCHANGED <<installVars, deployVars, discoveryVars, connVars, formatVars, scaleVars>>

\* Prompt.ask(choices=versions)
RbPrompt ==
    /\ rpc = "prompt"
    /\ \/ \E v \in rbk.offered :
            /\ rbk' = [rbk EXCEPT !.chosen = v]
            /\ rpc' = "current"
       \/ RbEnd("aborted")
    /\ UNCHANGED <<installVars, deployVars, discoveryVars, connVars, formatVars, scaleVars>>

\* cat .current_version, compared with the chosen version
RbReadCurrent ==
    /\ rpc = "current"
    /\ IF rbk.current_file = rbk.chosen
       THEN /\ rpc' = "ended"
            /\ rbk' = [rbk EXCEPT !.current_version = rbk.current_file,
                                  !.result = "already_current"]
       ELSE /\ rpc' = "confirm"
            /\ rbk' = [rbk EXCEPT !.current_version = rbk.current_file]
    /\ UNCHANGED <<installVars, deployVars, discoveryVars, connVars, formatVars, scaleVars>>

\* Confirm.ask
RbConfirm ==
    /\ rpc = "confirm"
    /\ \E yes \in BOOLEAN :
         IF yes THEN rpc' = "uninstall" /\ UNCHANGED rbk
                ELSE RbEnd("declined")
    /\ UNCHANGED <<installVars, deployVars, discoveryVars, connVars, formatVars, scaleVars>>

\* uninstall.sh of the current version's bundle, when that bundle is retained
RbUninstall ==
    /\ rpc = "uninstall"
    /\ rbk' = [rbk EXCEPT !.uninstalled =
                  IF rbk.current_version # ""
                     /\ [version |-> rbk.current_version, ext |-> ".tar.gz"] \in rbk.dir
                  THEN rbk.current_version ELSE @]
    /\ rpc' = "install"
    /\ UNCHANGED <<installVars, deployVars, discoveryVars, connVars, formatVars, scaleVars>>

\* tar -xzf of the retained target bundle and bash install.sh, warn is false
RbInstall ==
    /\ rpc = "install"
    /\ \E ok \in BOOLEAN :
         IF ok
         THEN /\ rbk' = [rbk EXCEPT !.installed = rbk.chosen, !.active = rbk.chosen,
                                    !.result = "completed"]
              /\ rpc' = "ended"
         ELSE RbEnd("failed")
    /\ UNCHANGED <<installVars, deployVars, discoveryVars, connVars, formatVars, scaleVars>>

(***************************************************************************)
(* Unit discovery (fujin/discovery.py) and the resolution of a service     *)
(* name to runtime unit names (BaseCommand._resolve_units)                   *)
(***************************************************************************)
RemoveSuffix(s, suffix) == IF EndsWith(s, suffix) THEN SubSeq(s, 1, Len(s) - Len(suffix)) ELSE s

\* _parse_service_filename: (service_name, is_template)
ParseServiceFilename(filename) ==
    LET name == RemoveSuffix(filename, <<".service">>)
        is_template == EndsWith(name, <<"@">>)
    IN [name |-> IF is_template THEN RemoveSuffix(name, <<"@">>) ELSE name,
        is_template |-> is_template]

AssociatedFile(name, isTemplate, suffix) ==
    IF isTemplate THEN name \o <<"@", suffix>> ELSE name \o <<suffix>>

NoFile == <<>>

\* discover_services, for one definition file of the systemd directory
DiscoverService(serviceFile, dirFiles) ==
    LET parsed == ParseServiceFilename(serviceFile)
        socket_file == AssociatedFile(parsed.name, parsed.is_template, ".socket")
        timer_file == AssociatedFile(parsed.name, parsed.is_template, ".timer")
    IN [name |-> parsed.name,
        is_template |-> parsed.is_template,
        service_file |-> serviceFile,
        socket_file |-> IF socket_file \in dirFiles THEN socket_file ELSE NoFile,
        timer_file |-> IF timer_file \in dirFiles THEN timer_file ELSE NoFile]

\* _resolve_units: the service names
ServiceUnitNames(app, svc, replicas, useTemplates) ==
    IF useTemplates /\ svc.is_template
    THEN <<app \o <<"-">> \o svc.name \o <<"@", ".service">>>>
    ELSE IF svc.is_template
    THEN [i \in 1..replicas |-> app \o <<"-">> \o svc.name \o <<"@", IdxStr[i], ".service">>]
    ELSE <<app \o <<"-">> \o svc.name \o <<".service">>>>

\* _resolve_units: the socket or timer name
AssociatedUnitsPerReplica(app, svc, replicas, suffix) ==
    [i \in 1..replicas |-> app \o <<"-">> \o svc.name \o <<"@", IdxStr[i], suffix>>]

AssociatedUnits(app, svc, replicas, suffix) ==
    <<app \o <<"-">> \o svc.name \o (IF svc.is_template THEN <<"@">> ELSE <<>>) \o <<suffix>>>>

SuffixTypes == {"none", "service", "socket", "timer"}

ResolveUnits(app, svc, replicas, suffixType, useTemplates) ==
    LET services == IF suffixType \in {"service", "none"}
                    THEN ServiceUnitNames(app, svc, replicas, useTemplates) ELSE <<>>
        sockets == IF svc.socket_file # NoFile /\ suffixType \in {"socket", "none"}
                   THEN AssociatedUnits(app, svc, replicas, ".socket") ELSE <<>>
        timers == IF svc.timer_file # NoFile /\ suffixType \in {"timer", "none"}
                  THEN AssociatedUnits(app, svc, replicas, ".timer") ELSE <<>>
    IN IF \/ suffixType = "socket" /\ svc.socket_file = NoFile
          \/ suffixType = "timer" /\ svc.timer_file = NoFile
       THEN [error |-> TRUE, units |-> <<>>]
       ELSE [error |-> FALSE, units |-> services \o sockets \o timers]

ServiceFileNames == {<<"worker", ".service">>, <<"worker", "@", ".service">>}

AssociatedFileNames == {<<"worker", ".socket">>, <<"worker", "@", ".socket">>,
                        <<"worker", ".timer">>, <<"worker", "@", ".timer">>}

NoUnit == [name |-> <<>>, is_template |-> FALSE, service_file |-> NoFile,
           socket_file |-> NoFile, timer_file |-> NoFile]

DiscoveryIdle ==
    /\ dsc = "idle"
    /\ disc = [service_file |-> NoFile, dir |-> {}, replicas |-> 1, unit |-> NoUnit,
               suffix_type |-> "none", use_templates |-> FALSE, error |-> FALSE,
               units |-> <<>>, underscore |-> FALSE, malformed |-> {},
               error_file |-> NoFile, found |-> {}]

\* a *.service file of the unit directory whose name starts with an underscore
UnderscoreServiceFile == <<"_", "helper", ".service">>

\* service_files = list(systemd_dir.glob("*.service"))
GlobServiceFiles(d) == {f \in d : EndsWith(f, <<".service">>)}

\* the orders in which glob() may yield the service files
GlobOrders(S) ==
    {o \in [1..Cardinality(S) -> S] : \A i, j \in 1..Cardinality(S) : o[i] = o[j] => i = j}

\* comparison: only the service file itself is parsed
ValidationFailureServiceOnly(f, d, bad) == IF f \in bad THEN f ELSE NoFile

\* one iteration of the loop of discover_services: _validate_unit_file on
\* the service file, then on its socket file and its timer file when they
\* exist; the first file that does not parse raises
ValidationFailure(f, d, bad) ==
    LET u == DiscoverService(f, d)
    IN IF f \in bad THEN f
       ELSE IF u.socket_file # NoFile /\ u.socket_file \in bad THEN u.socket_file
       ELSE IF u.timer_file # NoFile /\ u.timer_file \in bad THEN u.timer_file
       ELSE NoFile

\* the file named by the ServiceDiscoveryError of a walk in the order o
FirstFailure(o, d, bad) ==
    LET failing == {i \in DOMAIN o : ValidationFailure(o[i], d, bad) # NoFile}
    IN IF failing = {} THEN NoFile
       ELSE ValidationFailure(o[CHOOSE i \in failing : \A j \in failing : i <= j], d, bad)

DiscoveryInit ==
    /\ dsc = "discover"
    /\ \E f \in ServiceFileNames, a \in SUBSET AssociatedFileNames, r \in 1..MaxReplicas,
          us \in BOOLEAN :
         LET d == {f} \cup a \cup (IF us THEN {UnderscoreServiceFile} ELSE {})
         IN \E bad \in SUBSET d :
              disc = [service_file |-> f, dir |-> d, replicas |-> r, unit |-> NoUnit,
                      suffix_type |-> "none", use_templates |-> FALSE, error |-> FALSE,
                      units |-> <<>>, underscore |-> us, malformed |-> bad,
                      error_file |-> NoFile, found |-> {}]

\* discover_services
Discover ==
    /\ dsc = "discover"
    /\ \E o \in GlobOrders(GlobServiceFiles(disc.dir)) :
         LET failure == FirstFailure(o, disc.dir, disc.malformed)
         IN IF failure # NoFile
            THEN /\ disc' = [disc EXCEPT !.error_file = failure]
                 /\ dsc' = "failed"
            ELSE /\ disc' = [disc EXCEPT
                               !.unit = DiscoverService(disc.service_file, disc.dir),
                               !.found = {DiscoverService(o[i], disc.dir).name : i \in DOMAIN o}]
                 /\ dsc' = "resolve"
    /\ UNCHANGED <<installVars, deployVars, rollbackVars, connVars, formatVars, scaleVars>>

\* _resolve_units(name, use_templates)
Resolve ==
    /\ dsc = "resolve"
    /\ \E st \in SuffixTypes, ut \in BOOLEAN :
         LET res == ResolveUnits(AppName, disc.unit, disc.replicas, st, ut)
         IN disc' = [disc EXCEPT !.suffix_type = st, !.use_templates = ut,
                                 !.error = res.error, !.units = res.units]
    /\ dsc' = "resolved"
    /\ UNCHANGED <<installVars, deployVars, rollbackVars, connVars, formatVars, scaleVars>>

(***************************************************************************)
(* uninstall() of the remote installer (src/fujin/_installer.py)           *)
(***************************************************************************)
\* manifest entries naming units of another program
ForeignUnits == {DeployedUnit(<<"nginx">>, "web", 1, TRUE, FALSE),
                 DeployedUnit(<<"nginx">>, "worker", 2, FALSE, FALSE)}

UnitNames(units) ==
    {u.template_service_name : u \in units}
        \cup ({u.template_socket_name : u \in units} \ {None})
        \cup ({u.template_timer_name : u \in units} \ {None})

\* regular_units and template_units of uninstall()
RegularUnits(units) == UnitNames({u \in units : ~u.is_template})

TemplateUnits(units) == UnitNames({u \in units : u.is_template})

\* comparison: every listed unit file is removed
RemovableUnitsAll(app, units) == units

\* the loop over valid_units: `if not unit.startswith(config.app_name): continue`
RemovableUnits(app, units) == {u \in units : StartsWith(u, app)}

\* the installer is started with the uninstall command on a host that holds
\* the unit files named by the manifest
UninstallInit ==
    /\ ipc = "uninstall"
    /\ \E m \in Manifests, f \in SUBSET ForeignUnits, w \in BOOLEAN :
         /\ cfg = [app_name |-> AppName, version |-> "v2", deployed_units |-> m \cup f,
                   webserver_enabled |-> w, installation_mode |-> "binary",
                   full_restart |-> FALSE]
         /\ sysFiles = UnitNames(m \cup ForeignUnits)
         /\ wantsFiles = EnabledBefore(sysFiles) \cup ActiveUnits(m \cup ForeignUnits)
         /\ unitState = [u \in {x \in sysFiles : ~IsTemplateFile(x)}
                                  \cup ActiveUnits(m \cup ForeignUnits) |-> "active"]
    /\ caddy = NoCaddy("old")
    /\ dropinDirs = {}
    /\ marker = "v2"
    /\ restartRc = 0
    /\ failedUnits = {}
    /\ exitCode = -1
    /\ cause = "none"
    /\ opsLog = NoOps

\* systemctl disable --now <regular units>; systemctl disable <template units>
UninstallDisable ==
    /\ ipc = "uninstall"
    /\ LET regular == RegularUnits(cfg.deployed_units)
           template == TemplateUnits(cfg.deployed_units)
       IN /\ opsLog' = [opsLog EXCEPT !.stopped = @ \cup regular,
                                      !.disabled = @ \cup regular \cup template]
          /\ unitState' = [u \in DOMAIN unitState |->
                              IF u \in regular THEN "inactive" ELSE unitState[u]]
          /\ wantsFiles' = {f \in wantsFiles : SymlinkTarget(f) \notin regular \cup template}
    /\ ipc' = "un_remove"
    /\ UNCHANGED <<cfg, sysFiles, dropinDirs, marker, restartRc, failedUnits, exitCode, cause>>
    /\ UNCHANGED <<caddy, deployVars, rollbackVars, discoveryVars, connVars, formatVars, scaleVars>>

\* the unit files of the manifest are unlinked, then daemon-reload and
\* reset-failed
UninstallRemoveUnits ==
    /\ ipc = "un_remove"
    /\ LET valid_units == RegularUnits(cfg.deployed_units) \cup TemplateUnits(cfg.deployed_units)
           removable == RemovableUnits(cfg.app_name, valid_units)
       IN /\ sysFiles' = sysFiles \ removable
          /\ opsLog' = [opsLog EXCEPT !.removed = @ \cup removable, !.synced = TRUE]
    /\ ipc' = "un_cleanup"
    /\ UNCHANGED <<cfg, wantsFiles, dropinDirs, unitState, marker, restartRc, failedUnits,
                   exitCode, cause>>
    /\ UNCHANGED <<caddy, deployVars, rollbackVars, discoveryVars, connVars, formatVars, scaleVars>>

\* the proxy configuration is removed when the web server is enabled, the
\* app user is deleted, uninstall returns
UninstallCleanup ==
    /\ ipc = "un_cleanup"
    /\ caddy' = IF cfg.webserver_enabled
                THEN [caddy EXCEPT !.config = "absent", !.reloads = @ + 1, !.modified = TRUE]
                ELSE caddy
    /\ Exit(EXIT_SUCCESS, "done")
    /\ UNCHANGED <<cfg, sysFiles, wantsFiles, dropinDirs, unitState, marker, restartRc,
                   failedUnits, opsLog>>
    /\ UNCHANGED <<deployVars, rollbackVars, discoveryVars, connVars, formatVars, scaleVars>>

\* main(): `except Exception` around uninstall() ends with status 1
UninstallException ==
    /\ ipc \in {"un_remove", "un_cleanup"}
    /\ Exit(EXIT_GENERAL_ERROR, "exception")
    /\ UNCHANGED <<cfg, sysFiles, wantsFiles, dropinDirs, unitState, marker, restartRc,
                   failedUnits, opsLog>>
    /\ UNCHANGED <<caddy, deployVars, rollbackVars, discoveryVars, connVars, formatVars, scaleVars>>

(***************************************************************************)
(* The SSH connection: connection(host), SSH2Connection.run and put        *)
(* (src/fujin/connection.py)                                               *)
(***************************************************************************)
MaxChunks == 2
MaxOps == 2

LIBSSH2_SESSION_BLOCK_INBOUND == 1
LIBSSH2_SESSION_BLOCK_OUTBOUND == 2

\* exit statuses a remote command may report
ExitStatuses == {0, 1, 3}

\* the hide argument of run: False, True
HideModes == {"no", "yes"}

NoWait == [directions |-> -1, rlist |-> {}, wlist |-> {}]
NoResult == [kind |-> "none", output |-> <<>>, ok |-> FALSE, code |-> 0]

\* the channel as the remote end and libssh2 see it: what the remote still
\* has to write, the packets on the socket, the data queued per stream
NoNet == [script |-> <<>>, sent |-> 0, eof_sent |-> FALSE, wire |-> <<>>,
          qout |-> <<>>, qerr |-> <<>>, eof |-> FALSE, written |-> <<>>]

NoRun == [warn |-> FALSE, hide |-> "no", raised |-> FALSE, stdout_buffer |-> <<>>,
          stderr_buffer |-> <<>>, echoed |-> <<>>, wait |-> NoWait, waited |-> FALSE]

ConnectionIdle ==
    /\ cpc = "idle"
    /\ cn = [sock |-> "none", error |-> "", channels |-> 0, opened |-> 0,
             blocking |-> TRUE, ops |-> 0, op |-> "none", script |-> <<>>,
             net |-> NoNet, run |-> NoRun, result |-> NoResult]

\* what the remote command writes: a sequence of stream names
Scripts == UNION {[1..n -> {"out", "err"}] : n \in 0..MaxChunks}

\* sock = socket.socket(AF_INET, SOCK_STREAM)
ConnectionInit ==
    /\ cpc = "connect"
    /\ \E sc \in Scripts :
         cn = [sock |-> "open", error |-> "", channels |-> 0, opened |-> 0,
               blocking |-> TRUE, ops |-> 0, op |-> "none", script |-> sc,
               net |-> NoNet, run |-> NoRun, result |-> NoResult]

\* the bytes of the i-th chunk the remote writes; every second chunk is not
\* valid UTF-8
Chunk(i) == [bytes |-> IdxStr[i], valid |-> i % 2 = 1]

\* data.decode("utf-8", errors="replace")
Decode(chunk) == IF chunk.valid THEN <<chunk.bytes>> ELSE <<"U+FFFD">>

\* "".join(buffer)
Join(buffer) ==
    LET RECURSIVE J(_)
        J(b) == IF b = <<>> THEN <<>> ELSE Head(b) \o J(Tail(b))
    IN J(buffer)

\* sock.connect((host.ip or host.domain_name, host.ssh_port))
SockConnect ==
    /\ cpc = "connect"
    /\ \E ok \in BOOLEAN :
         IF ok THEN cpc' = "handshake" /\ cn' = cn
         ELSE cpc' = "exited" /\ cn' = [cn EXCEPT !.error = "connect"]
    /\ UNCHANGED <<installVars, deployVars, rollbackVars, discoveryVars, formatVars, scaleVars>>

\* session.handshake(sock)
Handshake ==
    /\ cpc = "handshake"
    /\ \E ok \in BOOLEAN :
         IF ok THEN cpc' = "auth" /\ cn' = cn
         ELSE cpc' = "exited" /\ cn' = [cn EXCEPT !.error = "handshake", !.sock = "closed"]
    /\ UNCHANGED <<installVars, deployVars, rollbackVars, discoveryVars, formatVars, scaleVars>>

\* userauth_publickey_fromfile / userauth_password / agent_auth
Authenticate ==
    /\ cpc = "auth"
    /\ \E ok \in BOOLEAN :
         IF ok THEN cpc' = "auth_check" /\ cn' = cn
         ELSE cpc' = "exited" /\ cn' = [cn EXCEPT !.error = "auth", !.sock = "closed"]
    /\ UNCHANGED <<installVars, deployVars, rollbackVars, discoveryVars, formatVars, scaleVars>>

\* if not session.userauth_authenticated(): raise cappa.Exit
AuthCheck ==
    /\ cpc = "auth_check"
    /\ \E authenticated \in BOOLEAN :
         IF authenticated THEN cpc' = "block" /\ cn' = cn
         ELSE cpc' = "exited" /\ cn' = [cn EXCEPT !.error = "unauthenticated"]
    /\ UNCHANGED <<installVars, deployVars, rollbackVars, discoveryVars, formatVars, scaleVars>>

\* the body of the with block ends, normally or with an exception of its own
BlockExit ==
    /\ cpc = "block"
    /\ \E e \in {"", "block"} : cn' = [cn EXCEPT !.error = e, !.op = "none"]
    /\ cpc' = "disconnect"
    /\ UNCHANGED <<installVars, deployVars, rollbackVars, discoveryVars, formatVars, scaleVars>>

\* finally: session.disconnect() (an exception is logged), finally: sock.close()
Disconnect ==
    /\ cpc = "disconnect"
    /\ cn' = [cn EXCEPT !.sock = "closed"]
    /\ cpc' = "exited"
    /\ UNCHANGED <<installVars, deployVars, rollbackVars, discoveryVars, formatVars, scaleVars>>

\* run: channel = self.session.open_session(); self.session.set_blocking(False)
LoopBlockingOn == TRUE

LoopBlocking == FALSE

RunOpen ==
    /\ cpc = "block"
    /\ cn.ops < MaxOps
    /\ \E w \in BOOLEAN, h \in HideModes :
         cn' = [cn EXCEPT !.ops = @ + 1, !.op = "run", !.channels = @ + 1, !.opened = 1,
                          !.blocking = LoopBlocking,
                          !.net = [NoNet EXCEPT !.script = cn.script],
                          !.run = [NoRun EXCEPT !.warn = w, !.hide = h],
                          !.result = NoResult]
    /\ cpc' = "execute"
    /\ UNCHANGED <<installVars, deployVars, rollbackVars, discoveryVars, formatVars, scaleVars>>

\* channel.pty(); channel.execute(full_command)
Execute ==
    /\ cpc = "execute"
    /\ cpc' = "read_out"
    /\ cn' = cn
    /\ UNCHANGED <<installVars, deployVars, rollbackVars, discoveryVars, formatVars, scaleVars>>

RunLoopStates == {"read_out", "wait_out", "read_err", "wait_err", "eof"}

\* the remote end: the command writes its next chunk, or ends
RemoteSend ==
    /\ cpc \in RunLoopStates
    /\ ~cn.net.eof_sent
    /\ IF cn.net.script # <<>>
       THEN LET pkt == [stream |-> Head(cn.net.script), data |-> Chunk(cn.net.sent + 1)]
            IN cn' = [cn EXCEPT !.net.script = Tail(@), !.net.sent = @ + 1,
                                !.net.wire = Append(@, pkt),
                                !.net.written = IF pkt.stream = "out"
                                                THEN Append(@, pkt.data) ELSE @]
       ELSE cn' = [cn EXCEPT !.net.eof_sent = TRUE,
                             !.net.wire = Append(@, [stream |-> "eof", data |-> Chunk(1)])]
    /\ cpc' = cpc
    /\ UNCHANGED <<installVars, deployVars, rollbackVars, discoveryVars, formatVars, scaleVars>>

\* libssh2 reads the packets that arrived on the socket into the channel
Pulled(net) ==
    LET data(st) == SelectSeq(net.wire, LAMBDA p : p.stream = st)
        bytes(q) == [i \in DOMAIN q |-> q[i].data]
    IN [net EXCEPT !.wire = <<>>,
                   !.qout = @ \o bytes(data("out")),
                   !.qerr = @ \o bytes(data("err")),
                   !.eof = @ \/ data("eof") # <<>>]

\* comparison: end-of-file as soon as the remote's EOF arrived
ChannelEofUnmasked(net) == net.eof

\* channel.eof(): the remote's EOF, masked while data is queued on the channel
ChannelEof(net) == net.eof /\ net.qout = <<>> /\ net.qerr = <<>>

\* comparison: always wait for inbound data only
WaitListsInbound(directions) == [directions |-> directions, rlist |-> {"sock"}, wlist |-> {}]

\* _wait_for_socket: rlist and wlist from session.block_directions()
WaitLists(directions) ==
    [directions |-> directions,
     rlist |-> IF (directions % 2) = LIBSSH2_SESSION_BLOCK_INBOUND THEN {"sock"} ELSE {},
     wlist |-> IF (directions \div LIBSSH2_SESSION_BLOCK_OUTBOUND) % 2 = 1 THEN {"sock"} ELSE {}]

\* size, data = channel.read() / channel.read_stderr() and the branch on size
ChannelRead(stream, waitAt, next) ==
    LET net == Pulled(cn.net)
        q == IF stream = "out" THEN net.qout ELSE net.qerr
        shown == IF stream = "out" THEN cn.run.hide \in {"no", "err"}
                 ELSE cn.run.hide \in {"no", "out"}
    IN IF q # <<>>
       THEN LET text == Decode(Head(q))
            IN /\ cn' = [cn EXCEPT
                     !.net = IF stream = "out" THEN [net EXCEPT !.qout = Tail(@)]
                             ELSE [net EXCEPT !.qerr = Tail(@)],
                     !.run.echoed = IF shown THEN Append(@, [stream |-> stream, text |-> text])
                                    ELSE @,
                     !.run.stdout_buffer = IF stream = "out" THEN Append(@, text) ELSE @,
                     !.run.stderr_buffer = IF stream = "err" THEN Append(@, text) ELSE @]
               /\ cpc' = next
       ELSE IF net.eof
       THEN cn' = [cn EXCEPT !.net = net] /\ cpc' = next
       ELSE /\ ~cn.blocking
            /\ cn' = [cn EXCEPT !.net = net]
            /\ cpc' = waitAt

ReadStdout ==
    /\ cpc = "read_out"
    /\ ChannelRead("out", "wait_out", "read_err")
    /\ UNCHANGED <<installVars, deployVars, rollbackVars, discoveryVars, formatVars, scaleVars>>

ReadStderr ==
    /\ cpc = "read_err"
    /\ ChannelRead("err", "wait_err", "eof")
    /\ UNCHANGED <<installVars, deployVars, rollbackVars, discoveryVars, formatVars, scaleVars>>

\* _wait_for_socket(timeout=1.0): returns at once when no direction is
\* reported, else when select() reports the socket ready or times out
WaitForSocket ==
    /\ cpc \in {"wait_out", "wait_err"}
    /\ \E directions \in 0..3 :
         cn' = [cn EXCEPT !.run.wait = WaitLists(directions),
                          !.run.waited = directions # 0]
    /\ cpc' = IF cpc = "wait_out" THEN "read_err" ELSE "eof"
    /\ UNCHANGED <<installVars, deployVars, rollbackVars, discoveryVars, formatVars, scaleVars>>

\* try: eof = channel.eof() except Exception: eof = False; if eof: break
CheckEof ==
    /\ cpc = "eof"
    /\ \E raises \in BOOLEAN :
         cpc' = IF ~raises /\ ChannelEof(cn.net) THEN "finally" ELSE "read_out"
    /\ cn' = cn
    /\ UNCHANGED <<installVars, deployVars, rollbackVars, discoveryVars, formatVars, scaleVars>>

\* comparison: the exception leaves run without the finally block
RunRaiseSkippingFinally ==
    /\ cpc \in {"execute"} \cup RunLoopStates
    /\ cn' = [cn EXCEPT !.run.raised = TRUE]
    /\ cpc' = "status"
    /\ UNCHANGED <<installVars, deployVars, rollbackVars, discoveryVars, formatVars, scaleVars>>

\* an exception inside the try block of run (a library error or an interrupt)
RunRaise ==
    /\ cpc \in {"execute"} \cup RunLoopStates
    /\ cn' = [cn EXCEPT !.run.raised = TRUE]
    /\ cpc' = "finally"
    /\ UNCHANGED <<installVars, deployVars, rollbackVars, discoveryVars, formatVars, scaleVars>>

\* finally: set_blocking(True); wait_eof(); close(); wait_closed()
RunFinally ==
    /\ cpc = "finally"
    /\ cn' = [cn EXCEPT !.blocking = TRUE, !.channels = @ - 1]
    /\ cpc' = "status"
    /\ UNCHANGED <<installVars, deployVars, rollbackVars, discoveryVars, formatVars, scaleVars>>

\* comparison: a non-zero status always raises
RaisesIgnoringWarn(exit_status, warn) == exit_status # 0

\* if exit_status != 0 and not warn: raise cappa.Exit(code=exit_status)
Raises(exit_status, warn) == exit_status # 0 /\ ~warn

\* exit_status = channel.get_exit_status(); raise or return
RunStatus ==
    /\ cpc = "status"
    /\ IF cn.run.raised
       THEN /\ cn' = [cn EXCEPT !.error = "run", !.op = "none",
                                !.result = [NoResult EXCEPT !.kind = "exception"]]
            /\ cpc' = "disconnect"
       ELSE \E exit_status \in ExitStatuses :
              IF Raises(exit_status, cn.run.warn)
              THEN /\ cn' = [cn EXCEPT !.error = "exit", !.op = "none",
                                       !.result = [NoResult EXCEPT !.kind = "raised",
                                                                   !.code = exit_status]]
                   /\ cpc' = "disconnect"
              ELSE /\ cn' = [cn EXCEPT !.op = "none",
                                       !.result = [kind |-> "returned",
                                                   output |-> Join(cn.run.stdout_buffer),
                                                   ok |-> exit_status = 0,
                                                   code |-> exit_status]]
                   /\ cpc' = "block"
    /\ UNCHANGED <<installVars, deployVars, rollbackVars, discoveryVars, formatVars, scaleVars>>

\* put: the checks of the local path, then channel = session.scp_send64(...)
PutOpen ==
    /\ cpc = "block"
    /\ cn.ops < MaxOps
    /\ \E local_ok \in BOOLEAN :
         IF local_ok
         THEN /\ cn' = [cn EXCEPT !.ops = @ + 1, !.op = "put", !.channels = @ + 1,
                                  !.opened = 1, !.result = NoResult]
              /\ cpc' = "put_write"
         ELSE /\ cn' = [cn EXCEPT !.ops = @ + 1, !.error = "put", !.opened = 0,
                                  !.result = [NoResult EXCEPT !.kind = "exception"]]
              /\ cpc' = "disconnect"
    /\ UNCHANGED <<installVars, deployVars, rollbackVars, discoveryVars, formatVars, scaleVars>>

\* try: channel.write(data) for each line; finally: channel.close()
PutTransfer ==
    /\ cpc = "put_write"
    /\ \E ok \in BOOLEAN :
         IF ok
         THEN /\ cn' = [cn EXCEPT !.channels = @ - 1, !.op = "none",
                                  !.result = [NoResult EXCEPT !.kind = "put_done"]]
              /\ cpc' = "block"
         ELSE /\ cn' = [cn EXCEPT !.channels = @ - 1, !.op = "none", !.error = "put",
                                  !.result = [NoResult EXCEPT !.kind = "exception"]]
              /\ cpc' = "disconnect"
    /\ UNCHANGED <<installVars, deployVars, rollbackVars, discoveryVars, formatVars, scaleVars>>

(***************************************************************************)
(* Tolerant substitution: safe_format (src/fujin/formatting.py)            *)
(***************************************************************************)
MaxTemplateLen == 4

\* the characters of a template: braces, lowercase letters, an uppercase
\* letter, a digit, a blank
TemplateChars == {"{", "}", "a", "b", "A", "1", " "}

\* [a-zA-Z0-9_]
WordChars == {"a", "b", "A", "1"}

Templates == UNION {[1..n -> TemplateChars] : n \in 0..MaxTemplateLen}

\* the substitution context: the key `a` is bound, to a plain value or to one
\* that itself holds a brace token
Contexts == {[k \in {<<"a">>} |-> v] : v \in {<<"V">>, <<"{", "b", "}">>}}

\* the file resolved after the first one (the Caddyfile)
SecondFiles == {<<"{", "b", "}">>, <<" ">>}

\* comparison: every unbound key is reported
LooksLikeVariableAny(key) == TRUE

\* re.match(r"^[a-z][a-z0-9_]*$", key)
LooksLikeVariable(key) ==
    /\ key # <<>>
    /\ key[1] \in {"a", "b"}
    /\ \A i \in DOMAIN key : key[i] \in {"a", "b", "1"}

\* the length of the longest run of characters of S that starts at t[i]
RunLen(t, i, S) ==
    LET RECURSIVE R(_)
        R(j) == IF j <= Len(t) /\ t[j] \in S THEN 1 + R(j + 1) ELSE 0
    IN R(i)

\* a match of \{+([a-zA-Z0-9_]+)\}+ starting at t[i]; len 0 when there is none
MatchAt(t, i) ==
    LET o == RunLen(t, i, {"{"})
        w == RunLen(t, i + o, WordChars)
        c == RunLen(t, i + o + w, {"}"})
    IN IF o > 0 /\ w > 0 /\ c > 0
       THEN [len |-> o + w + c, key |-> SubSeq(t, i + o, i + o + w - 1)]
       ELSE [len |-> 0, key |-> <<>>]

\* safe_format(template, **kwargs): (result, unresolved)
SafeFormat(t, kwargs) ==
    LET RECURSIVE Scan(_)
        Scan(i) ==
            IF i > Len(t) THEN [result |-> <<>>, unresolved |-> {}]
            ELSE LET m == MatchAt(t, i)
                 IN IF m.len = 0
                    THEN LET r == Scan(i + 1)
                         IN [result |-> <<t[i]>> \o r.result, unresolved |-> r.unresolved]
                    ELSE LET r == Scan(i + m.len)
                         IN IF m.key \in DOMAIN kwargs
                            THEN [result |-> kwargs[m.key] \o r.result,
                                  unresolved |-> r.unresolved]
                            ELSE [result |-> SubSeq(t, i, i + m.len - 1) \o r.result,
                                  unresolved |-> r.unresolved \cup
                                      (IF LooksLikeVariable(m.key) THEN {m.key} ELSE {})]
    IN Scan(1)

NoFormat == [files |-> <<>>, context |-> <<>>, results |-> <<>>, unresolved |-> <<>>,
             all_unresolved |-> {}, warnings |-> <<>>]

FormatIdle ==
    /\ fpc = "idle"
    /\ fmt = NoFormat

\* Deploy.__call__ starts resolving the configuration files of the bundle
FormatInit ==
    /\ fpc = "resolve"
    /\ \E t \in Templates, c \in SecondFiles, ctx \in Contexts :
         fmt = [NoFormat EXCEPT !.files = <<t, c>>, !.context = ctx]

\* resolved, unresolved = safe_format(content, **context);
\* all_unresolved.update(unresolved)
FormatFile ==
    /\ fpc = "resolve"
    /\ LET r == SafeFormat(fmt.files[Len(fmt.results) + 1], fmt.context)
       IN fmt' = [fmt EXCEPT !.results = Append(@, r.result),
                             !.unresolved = Append(@, r.unresolved),
                             !.all_unresolved = @ \cup r.unresolved]
    /\ fpc' = IF Len(fmt.results) + 1 = Len(fmt.files) THEN "warn" ELSE "resolve"
    /\ UNCHANGED <<installVars, deployVars, rollbackVars, discoveryVars, connVars, scaleVars>>

\* if all_unresolved: self.output.warning(... sorted(all_unresolved) ...)
FormatWarn ==
    /\ fpc = "warn"
    /\ fmt' = [fmt EXCEPT !.warnings = IF fmt.all_unresolved # {}
                                       THEN Append(@, fmt.all_unresolved) ELSE @]
    /\ fpc' = "done"
    /\ UNCHANGED <<installVars, deployVars, rollbackVars, discoveryVars, connVars, scaleVars>>

(***************************************************************************)
(* The scale command: Scale.__call__ (src/fujin/commands/scale.py)         *)
(***************************************************************************)
MaxCount == 3
MaxScaleOps == 3

ScaleServices == {"web", "worker"}

\* the count argument: negative, zero, one, two and more
ScaleCounts == -1..MaxCount

RegularService(service) == <<service, ".service">>

TemplateService(service) == <<service, "@", ".service">>

\* definition files as token sequences: "D" stands for the description
\* `{{app_name}} <service>`, "x" for any other text
RegularContents == {<<"D">>, <<"x">>}

TemplateContents == {<<"D", "%i">>, <<"x", "%I">>}

NoScale == [files |-> <<>>, replicas |-> [s \in ScaleServices |-> 0],
            service |-> "none", count |-> 0, exit |-> -1, changed |-> FALSE,
            last |-> [s \in ScaleServices |-> 0], all_ok |-> TRUE, ops |-> 0,
            old_count |-> 0, server |-> "none", instances |-> {}]

ScaleIdle ==
    /\ spc = "idle"
    /\ scl = NoScale

\* the project before the command: web.service, and for worker no file, the
\* regular file with at most one replica or the template file with a replicas
\* entry of two or more, as `fujin new service` and scale leave them;
\* fujin.toml has been read by Config.read
ScaleInit ==
    /\ spc = "ready"
    /\ \E wc \in RegularContents, k \in {"none", "regular", "template"},
          c \in RegularContents \cup TemplateContents, r \in 0..MaxCount :
         /\ k = "none" => (c = <<"D">> /\ r = 0)
         /\ k = "regular" => (c \in RegularContents /\ r <= 1)
         /\ k = "template" => (c \in TemplateContents /\ r >= 2)
         /\ scl = [NoScale EXCEPT
                    !.files = [f \in {RegularService("web")} \cup
                                     (CASE k = "none" -> {}
                                        [] k = "regular" -> {RegularService("worker")}
                                        [] k = "template" -> {TemplateService("worker")}) |->
                                  IF f = RegularService("web") THEN wc ELSE c],
                    !.replicas = [s \in ScaleServices |-> IF s = "worker" THEN r ELSE 0]]

\* content.replace("%i", "").replace("%I", "")
RECURSIVE RemoveSpecifiers(_)
RemoveSpecifiers(content) ==
    IF content = <<>> THEN <<>>
    ELSE IF Head(content) \in {"%i", "%I"} THEN RemoveSpecifiers(Tail(content))
    ELSE <<Head(content)>> \o RemoveSpecifiers(Tail(content))

\* content.replace("{{app_name}} <service>", "{{app_name}} <service> %i")
RECURSIVE AddSpecifier(_)
AddSpecifier(content) ==
    IF content = <<>> THEN <<>>
    ELSE IF Head(content) = "D" THEN <<"D", "%i">> \o AddSpecifier(Tail(content))
    ELSE <<Head(content)>> \o AddSpecifier(Tail(content))

\* comparison: the old file is left in place
ConvertFileKeepingOld(files, old, new, content) ==
    [f \in DOMAIN files \cup {new} |-> IF f = new THEN content ELSE files[f]]

\* write_text of the new file, unlink of the old one
ConvertFile(files, old, new, content) ==
    [f \in (DOMAIN files \ {old}) \cup {new} |-> IF f = new THEN content ELSE files[f]]

\* _update_replicas_config: count None (here 0) deletes the entry
UpdateReplicasConfig(replicas, service, count) == [replicas EXCEPT ![service] = count]

\* the units of self.config.deployed_units named `service`: replica_count is
\* the replicas entry or 1; is_template is either the one of the definition
\* file's name (discover_services) or replica_count > 1
ReplicaCount(replicas, service) == IF replicas[service] = 0 THEN 1 ELSE replicas[service]

ScaleDeployedUnits(files, replicas, service) ==
    UNION {{[file |-> f, is_template |-> t,
             replica_count |-> ReplicaCount(replicas, service)] :
               t \in {ParseServiceFilename(f).is_template,
                      ReplicaCount(replicas, service) > 1}} :
           f \in {x \in DOMAIN files : ParseServiceFilename(x).name = <<service>>}}

ScaleFinish(state, code) ==
    [state EXCEPT !.exit = code,
                  !.last = IF code = 0 THEN [@ EXCEPT ![state.service] = state.count] ELSE @,
                  !.all_ok = @ /\ code = 0]

\* Scale.__call__ up to the choice of scaling on the server
ScaleCall ==
    /\ spc = "ready"
    /\ scl.ops < MaxScaleOps
    /\ \E service \in ScaleServices, count \in ScaleCounts :
         LET start == [scl EXCEPT !.service = service, !.count = count, !.ops = @ + 1,
                                 !.changed = FALSE, !.server = "none", !.instances = {}]
             units == ScaleDeployedUnits(scl.files, scl.replicas, service)
         IN IF count <= 0
            THEN /\ scl' = [start EXCEPT !.exit = 1]
                 /\ spc' = "ready"
            ELSE IF units = {}
            THEN /\ scl' = ScaleFinish(start, 1)
                 /\ spc' = "ready"
            ELSE \E deployed_unit \in units :
                   LET needs_conversion == deployed_unit.is_template <=> count = 1
                       files == IF ~needs_conversion THEN scl.files
                                ELSE IF count = 1
                                THEN ConvertFile(scl.files, TemplateService(service),
                                         RegularService(service),
                                         RemoveSpecifiers(scl.files[TemplateService(service)]))
                                ELSE ConvertFile(scl.files, RegularService(service),
                                         TemplateService(service),
                                         AddSpecifier(scl.files[RegularService(service)]))
                       replicas == UpdateReplicasConfig(scl.replicas, service,
                                                        IF count = 1 THEN 0 ELSE count)
                       done == [start EXCEPT !.files = files, !.replicas = replicas,
                                    !.changed = files # scl.files \/ replicas # scl.replicas,
                                    !.old_count = deployed_unit.replica_count]
                   IN IF ~needs_conversion /\ deployed_unit.replica_count # count
                         /\ deployed_unit.is_template
                      THEN /\ scl' = done
                           /\ spc' = "server"
                      ELSE /\ scl' = ScaleFinish(done, 0)
                           /\ spc' = "ready"
    /\ UNCHANGED <<installVars, deployVars, rollbackVars, discoveryVars, connVars, formatVars>>

\* _scale_on_server: the new instances are started and enabled, or the
\* removed ones stopped and disabled; a failing connection or command raises
ScaleOnServer ==
    /\ spc = "server"
    /\ \E result \in {"ok", "error"} :
         scl' = ScaleFinish(
                   [scl EXCEPT !.server = IF scl.count > scl.old_count THEN "start" ELSE "stop",
                              !.instances = IF scl.count > scl.old_count
                                            THEN (scl.old_count + 1)..scl.count
                                            ELSE (scl.count + 1)..scl.old_count],
                   IF result = "ok" THEN 0 ELSE 1)
    /\ spc' = "ready"
    /\ UNCHANGED <<installVars, deployVars, rollbackVars, discoveryVars, connVars, formatVars>>

(***************************************************************************)
(* Specifications                                                          *)
(***************************************************************************)
InstallNext ==
    \/ ParseArgs \/ Extract \/ DirectorySetup \/ RecordVersion \/ PackageInstall
    \/ PermissionFix \/ UnitSync \/ EnableUnits \/ Restart \/ Grace \/ HealthVerify
    \/ Verdict \/ ConfigureCaddy \/ CaddyReload \/ CaddyResult \/ InstallerException

InitInstall == InstallInit /\ DeployIdle /\ RollbackIdle /\ DiscoveryIdle /\ ConnectionIdle /\ FormatIdle
        /\ ScaleIdle

SpecInstall == InitInstall /\ [][InstallNext]_vars

InitInstallModes ==
    InstallInitModes /\ DeployIdle /\ RollbackIdle /\ DiscoveryIdle /\ ConnectionIdle /\ FormatIdle
        /\ ScaleIdle

SpecInstallModes == InitInstallModes /\ [][InstallNext]_vars

InitInstallRerun ==
    InstallInitRerun /\ DeployIdle /\ RollbackIdle /\ DiscoveryIdle /\ ConnectionIdle /\ FormatIdle
        /\ ScaleIdle

SpecInstallRerun == InitInstallRerun /\ [][InstallNext \/ Reinstall]_vars

InitInstallProxy == InstallInitProxy /\ DeployIdle /\ RollbackIdle /\ DiscoveryIdle /\ ConnectionIdle /\ FormatIdle
        /\ ScaleIdle

SpecInstallProxy == InitInstallProxy /\ [][InstallNext]_vars

DeployNext ==
    \/ ShowDeploymentSummary \/ DeployConnect
    \/ DeployMkdir \/ RsyncUpload \/ CopyStagingBegin \/ CopyStagingEnd
    \/ PutTransferBegin \/ PutTransferEnd \/ PutVerify \/ PutRename \/ PutRemoveTemp
    \/ PutPrompt \/ Interrupt \/ DeployInstall \/ HandleInstallResult \/ RollbackPrompt
    \/ RunRollback \/ RemoveFailedBundle \/ Prune \/ AuditLog

InitDeploy == InstallIdle /\ DeployInit /\ RollbackIdle /\ DiscoveryIdle /\ ConnectionIdle /\ FormatIdle
        /\ ScaleIdle

SpecDeploy == InitDeploy /\ [][DeployNext]_vars

RollbackNext ==
    \/ RbList \/ RbPrompt \/ RbReadCurrent \/ RbConfirm \/ RbUninstall \/ RbInstall

InitRollback == InstallIdle /\ DeployIdle /\ RollbackInit /\ DiscoveryIdle /\ ConnectionIdle /\ FormatIdle
        /\ ScaleIdle

SpecRollback == InitRollback /\ [][RollbackNext]_vars

DiscoveryNext == Discover \/ Resolve

InitDiscovery == InstallIdle /\ DeployIdle /\ RollbackIdle /\ DiscoveryInit /\ ConnectionIdle /\ FormatIdle
        /\ ScaleIdle

SpecDiscovery == InitDiscovery /\ [][DiscoveryNext]_vars

UninstallNext ==
    UninstallDisable \/ UninstallRemoveUnits \/ UninstallCleanup \/ UninstallException

InitUninstall ==
    UninstallInit /\ DeployIdle /\ RollbackIdle /\ DiscoveryIdle /\ ConnectionIdle /\ FormatIdle
        /\ ScaleIdle

SpecUninstall == InitUninstall /\ [][UninstallNext]_vars

ConnectionNext ==
    \/ SockConnect \/ Handshake \/ Authenticate \/ AuthCheck \/ BlockExit \/ Disconnect
    \/ RunOpen \/ Execute \/ RemoteSend \/ ReadStdout \/ ReadStderr \/ WaitForSocket
    \/ CheckEof \/ RunRaise \/ RunFinally \/ RunStatus \/ PutOpen \/ PutTransfer

InitConnection ==
    InstallIdle /\ DeployIdle /\ RollbackIdle /\ DiscoveryIdle /\ ConnectionInit /\ FormatIdle
        /\ ScaleIdle

SpecConnection == InitConnection /\ [][ConnectionNext]_vars

FormatNext == FormatFile \/ FormatWarn

InitFormat ==
    InstallIdle /\ DeployIdle /\ RollbackIdle /\ DiscoveryIdle /\ ConnectionIdle /\ FormatInit
        /\ ScaleIdle

SpecFormat == InitFormat /\ [][FormatNext]_vars

ScaleNext == ScaleCall \/ ScaleOnServer

InitScale ==
    InstallIdle /\ DeployIdle /\ RollbackIdle /\ DiscoveryIdle /\ ConnectionIdle /\ FormatIdle
        /\ ScaleInit

SpecScale == InitScale /\ [][ScaleNext]_vars

Spec == SpecInstall


DeployOver == dpc \in {"ended", "done"}

\* C2: whenever the installer exited with status 3, the just-uploaded bundle is
\* gone from the versions directory when the deploy command has ended, whether
\* rollback succeeded, failed, was declined, was interrupted or was disabled.
C2_FailedBundleAlwaysRemoved ==
    (DeployOver /\ inst.code = EXIT_SERVICE_START_FAILED) => remote.final = "none"

\* C3: the install command is invoked only after the digest recomputed on the
\* host was found equal to the local one, on the plain copy and on the rsync
\* staging + copy path alike.
C3_InstallOnlyAfterVerifiedDigest ==
    inst.invoked => up.verified

\* C4: when the digest never matches and the operator confirms every retry,
\* exactly the maximum number of upload attempts is made, the upload fails with
\* UploadError and the install command is never invoked.
C4_ExactlyMaxAttemptsThenUploadError ==
    (up.put_done /\ ~flags.no_input /\ ~up.declined /\ ~up.matched) =>
        /\ up.attempts = MaxAttempts
        /\ up.prompts = MaxAttempts - 1
        /\ dpc = "ended"
        /\ outcome.error = "UploadError"
        /\ ~inst.invoked

C4_Witness ==
    /\ up.put_done
    /\ ~flags.no_input
    /\ ~up.declined
    /\ ~up.matched
    /\ up.attempts = MaxAttempts
    /\ outcome.error = "UploadError"

C6_FinalPathEmptyOrVerified ==
    remote.final = "none" \/ (remote.final = "good" /\ up.verified)

C10_OtherFailureIsDeploymentErrorWithoutRollback ==
    (inst.invoked /\ inst.code \notin {EXIT_SUCCESS, EXIT_SERVICE_START_FAILED}
        /\ dpc # "install_result") =>
        /\ dpc = "ended"
        /\ outcome.error = "DeploymentError"
        /\ outcome.code = inst.code
        /\ ~rb.prompted
        /\ ~rb.attempted
        /\ ~rb.rollback_ran

C10_Witness ==
    /\ dpc = "ended"
    /\ inst.code = EXIT_VALIDATION_ERROR
    /\ outcome.error = "DeploymentError"
    /\ outcome.code = EXIT_VALIDATION_ERROR

(***************************************************************************)
(* Properties of UnitSync (SpecInstall)                                     *)
(***************************************************************************)
HasAppPrefix(f) == StartsWith(f, cfg.app_name)

\* C7: after UnitSync the unit files on the host that carry the app's prefix are
\* exactly the manifest's unit files: every earlier one that the manifest does
\* not name is absent, every one it names is present, and no unit whose name
\* does not start with the app name was stopped, disabled or removed.
C7_UnitSyncLeavesExactlyManifest ==
    opsLog.synced =>
        /\ {f \in sysFiles : HasAppPrefix(f)} = ValidUnits(cfg.deployed_units)
        /\ \A f \in opsLog.before :
             (HasAppPrefix(f) /\ f \notin ValidUnits(cfg.deployed_units)) => f \notin sysFiles
        /\ \A f \in opsLog.stopped \cup opsLog.disabled \cup opsLog.removed : HasAppPrefix(f)
        /\ \A f \in opsLog.before : ~HasAppPrefix(f) => f \in sysFiles

C7_Witness ==
    /\ opsLog.synced
    /\ \E f \in opsLog.before : HasAppPrefix(f) /\ f \notin sysFiles
    /\ \E f \in opsLog.before : HasAppPrefix(f) /\ f \in ValidUnits(cfg.deployed_units)
    /\ \E f \in sysFiles : f \notin opsLog.before
    /\ <<"nginx", ".service">> \in sysFiles

(***************************************************************************)
(* Properties of the rollback command (SpecRollback)                        *)
(***************************************************************************)
\* C9: the rollback command offers exactly the retained bundles of the app
\* other than the active version, and installs the chosen one from the host
\* without an upload.
C9_OffersRetainedExceptActive ==
    /\ rpc = "prompt" => rbk.offered = ListedVersions(rbk.dir) \ {rbk.active}
    /\ rbk.uploads = 0

(***************************************************************************)
(* Properties of the health verification (SpecInstall)                      *)
(***************************************************************************)
HealthVerified ==
    \/ ipc = "verdict"
    \/ ipc \in ProxySteps
    \/ ipc = "exited" /\ opsLog.polled_done

HasSocketOrTimer(u) == u.template_socket_name # None \/ u.template_timer_name # None

C12_CrashWithinGraceIsDetected ==
    HealthVerified =>
        \A i \in opsLog.polled :
            (opsLog.after_restart[i] = "active" /\ unitState[i] = "failed") =>
                /\ i \in failedUnits
                /\ ipc \notin ProxySteps
                /\ ipc = "exited" => exitCode = EXIT_SERVICE_START_FAILED

C12_Witness ==
    /\ ipc = "exited"
    /\ exitCode = EXIT_SERVICE_START_FAILED
    /\ restartRc = 0
    /\ \E i \in opsLog.polled :
         opsLog.after_restart[i] = "active" /\ unitState[i] = "failed"

(***************************************************************************)
(* Properties of the proxy configuration (SpecInstallProxy)                 *)
(***************************************************************************)
\* C13: the proxy configuration is modified and the proxy reloaded only in runs
\* whose health verification succeeded; a run that ends with
\* service-start-failure leaves the proxy configuration file unchanged.
C13_ProxyOnlyAfterHealthSuccess ==
    /\ (caddy.modified \/ caddy.reloads > 0 \/ caddy.config # caddy.before) =>
           (opsLog.polled_done /\ restartRc = 0 /\ failedUnits = {})
    /\ (ipc = "exited" /\ exitCode = EXIT_SERVICE_START_FAILED) =>
           (caddy.config = caddy.before /\ ~caddy.modified /\ caddy.reloads = 0)

C13_Witness ==
    /\ ipc = "exited"
    /\ exitCode = EXIT_SERVICE_START_FAILED
    /\ cfg.webserver_enabled
    /\ caddy.before = "old"
    /\ caddy.config = "old"

\* C14: when the proxy reload fails or times out, the proxy configuration file
\* ends with exactly the content it had before the install, an empty content
\* included, or absent if it was absent, and the installer ends with success.
C14_FailedReloadRestoresPreviousConfig ==
    (ipc = "exited" /\ caddy.reload_failed) =>
        (caddy.config = caddy.before /\ exitCode = EXIT_SUCCESS)

(***************************************************************************)
(* Properties of the pruning of retained bundles (SpecDeploy)               *)
(***************************************************************************)
\* C15: after a successful deploy, and also after a successful automatic
\* rollback, the retained bundles beyond the retention count are pruned oldest
\* first: at most the retention count of bundles remains and every removed
\* bundle is older than every kept one.
C15_PrunedToRetentionCount ==
    (dpc = "done" /\ flags.versions_to_keep # 0
        /\ (inst.code = EXIT_SUCCESS \/ rb.rollback_succeeded)) =>
        /\ Cardinality(Retained(remote)) <= flags.versions_to_keep
        /\ \A r \in outcome.pruned_away : \A k \in Retained(remote) : Age(r) > Age(k)

(***************************************************************************)
(* Properties of the unit sets of install() (SpecInstall)                   *)
(***************************************************************************)
BookstoreUnits == {DeployedUnit(OtherApp, "web", 1, TRUE, FALSE),
                   DeployedUnit(OtherApp, "worker", 3, FALSE, FALSE)}

BookstoreValidUnits ==
    {OtherApp \o <<"-", "web", ".service">>,
     OtherApp \o <<"-", "web", ".socket">>,
     OtherApp \o <<"-", "worker", "@", ".service">>,
     OtherApp \o <<"-", "worker", "@", "1", ".service">>,
     OtherApp \o <<"-", "worker", "@", "2", ".service">>,
     OtherApp \o <<"-", "worker", "@", "3", ".service">>}

\* C16: the valid unit set of the stale-unit cleanup holds, for every manifest
\* unit, its template service name, each of its instance names and its socket
\* and timer names when present; for bookstore with web (1 replica, socket) and
\* worker (3 replicas) it is exactly the six names of BookstoreValidUnits.
C16_ValidUnitsHoldInstanceNames ==
    opsLog.synced =>
        /\ \A u \in cfg.deployed_units :
             /\ u.template_service_name \in ValidUnits(cfg.deployed_units)
             /\ u.service_instances \subseteq ValidUnits(cfg.deployed_units)
             /\ u.template_socket_name # None =>
                    u.template_socket_name \in ValidUnits(cfg.deployed_units)
             /\ u.template_timer_name # None =>
                    u.template_timer_name \in ValidUnits(cfg.deployed_units)
        /\ \A f \in opsLog.removed :
             \A u \in cfg.deployed_units : f \notin u.service_instances
        /\ ValidUnits(BookstoreUnits) = BookstoreValidUnits

Restarted == opsLog.restarted # {}

\* C17: the list of units passed to enable and to restart holds every service
\* instance name of every manifest unit and each unit's socket and timer name
\* when present; for a unit with two or more replicas the bare template name is
\* not in the list while each of its numbered instances is.
C17_EnableListHasInstancesNotTemplates ==
    Restarted =>
        /\ opsLog.enabled = opsLog.restarted
        /\ opsLog.restarted =
              {n \in DOMAIN unitState :
                 \E u \in cfg.deployed_units :
                     \/ n \in u.service_instances
                     \/ n # None /\ n \in {u.template_socket_name, u.template_timer_name}}
        /\ \A u \in cfg.deployed_units :
             /\ u.service_instances \subseteq opsLog.restarted
             /\ u.template_socket_name # None => u.template_socket_name \in opsLog.restarted
             /\ u.template_timer_name # None => u.template_timer_name \in opsLog.restarted
             /\ u.replicas >= 2 =>
                    /\ u.template_service_name \notin opsLog.restarted
                    /\ Cardinality(u.service_instances) = u.replicas
        /\ \A n \in opsLog.restarted : ~IsTemplateFile(n)

C17_Witness ==
    /\ Restarted
    /\ \E u \in cfg.deployed_units :
         /\ u.replicas >= 2
         /\ IsTemplateFile(u.template_service_name)
         /\ u.template_service_name \in sysFiles
         /\ u.service_instances \subseteq opsLog.enabled
    /\ \E u \in cfg.deployed_units : u.template_socket_name \in opsLog.restarted
    /\ \E u \in cfg.deployed_units : u.template_timer_name \in opsLog.restarted

(***************************************************************************)
(* Properties of unit discovery and naming (SpecDiscovery)                  *)
(***************************************************************************)
IsServiceName(n) == EndsWith(n, <<".service">>)

IsSocketName(n) == EndsWith(n, <<".socket">>)

IsTimerName(n) == EndsWith(n, <<".timer">>)

CarriesReplicaIndex(n) == \E k \in 1..Len(n) : \E i \in 1..Len(IdxStr) : n[k] = IdxStr[i]

InstanceNamesResolved ==
    dsc = "resolved" /\ ~disc.use_templates /\ disc.suffix_type \in {"none", "service"}

\* C19: a discovered unit is a template exactly when its replica count is
\* greater than 1, whether or not its definition file name carries '@'; a
\* template's instance names are app-name@1.service .. app-name@N.service in
\* that order, and any other unit has the one instance name app-name.service.
C19_TemplateIffReplicasAboveOne ==
    /\ dsc \in {"resolve", "resolved"} => (disc.unit.is_template <=> disc.replicas > 1)
    /\ InstanceNamesResolved =>
         SelectSeq(disc.units, IsServiceName) =
            IF disc.replicas > 1
            THEN [i \in 1..disc.replicas |->
                     AppName \o <<"-">> \o disc.unit.name \o <<"@", IdxStr[i], ".service">>]
            ELSE <<AppName \o <<"-">> \o disc.unit.name \o <<".service">>>>

\* C20: for every discovered unit and every replica count the socket name and
\* the timer name are single names without a replica index, and the unit
\* contributes at most one socket and at most one timer to the runtime units.
C20_OneSocketAndTimerWithoutIndex ==
    (dsc = "resolved" /\ ~disc.error) =>
        /\ Len(SelectSeq(disc.units, IsSocketName)) <= 1
        /\ Len(SelectSeq(disc.units, IsTimerName)) <= 1
        /\ \A k \in 1..Len(disc.units) :
             (IsSocketName(disc.units[k]) \/ IsTimerName(disc.units[k])) =>
                 ~CarriesReplicaIndex(disc.units[k])
        /\ disc.suffix_type = "none" =>
             /\ Len(SelectSeq(disc.units, IsSocketName)) =
                    (IF disc.unit.socket_file # NoFile THEN 1 ELSE 0)
             /\ Len(SelectSeq(disc.units, IsTimerName)) =
                    (IF disc.unit.timer_file # NoFile THEN 1 ELSE 0)

C20_Witness ==
    /\ dsc = "resolved"
    /\ ~disc.error
    /\ disc.replicas >= 2
    /\ disc.unit.is_template
    /\ disc.suffix_type = "none"
    /\ ~disc.use_templates
    /\ Len(SelectSeq(disc.units, IsServiceName)) = disc.replicas
    /\ Len(SelectSeq(disc.units, IsSocketName)) = 1
    /\ Len(SelectSeq(disc.units, IsTimerName)) = 1

(***************************************************************************)
(* Properties of the stale-unit handling of UnitSync (SpecInstall)          *)
(***************************************************************************)
StaleBefore ==
    {f \in opsLog.before : HasAppPrefix(f) /\ f \notin ValidUnits(cfg.deployed_units)}

NamesTemplate(f) == EndsWith(f, <<"@", ".service">>)

\* C18: during UnitSync every installed unit with the app's prefix that is not
\* in the valid set is stale: a stale template unit is disabled and not
\* stopped, a stale non-template unit is stopped, disabled and has its failure
\* record reset; a unit of the valid set is neither stopped nor disabled.
C18_StaleUnitsStoppedDisabledReset ==
    opsLog.synced =>
        /\ opsLog.disabled = StaleBefore
        /\ opsLog.stopped = {f \in StaleBefore : ~NamesTemplate(f)}
        /\ \A f \in StaleBefore : ~NamesTemplate(f) => f \in opsLog.reset
        /\ \A f \in opsLog.stopped \cup opsLog.disabled :
             f \notin ValidUnits(cfg.deployed_units)

C18_Witness ==
    /\ opsLog.synced
    /\ \E f \in opsLog.disabled : NamesTemplate(f) /\ f \notin opsLog.stopped
    /\ \E f \in opsLog.stopped : f \in opsLog.disabled /\ f \in opsLog.reset
    /\ \E f \in opsLog.before : f \in ValidUnits(cfg.deployed_units)

Discovered == dsc \in {"resolve", "resolved", "failed"}

\* C21: discovery never returns a unit whose logical name starts with an
\* underscore, and the error it raises never names such a file (the file is
\* not parsed)
C21_UnderscoreFilesSkippedAndNeverParsed ==
    Discovered =>
        /\ \A n \in disc.found : ~StartsWith(n, <<"_">>)
        /\ ~StartsWith(disc.error_file, <<"_">>)

\* C21, the part the code keeps: the units come from the *.service files of
\* the directory and no other
C21_FoundNamesComeFromServiceFiles ==
    Discovered =>
        disc.found \subseteq {RemoveSuffix(f, <<".service">>) : f \in GlobServiceFiles(disc.dir)}
            \cup {RemoveSuffix(RemoveSuffix(f, <<".service">>), <<"@">>) :
                      f \in GlobServiceFiles(disc.dir)}

ReadFiles(d) ==
    GlobServiceFiles(d)
        \cup ({DiscoverService(f, d).socket_file : f \in GlobServiceFiles(d)} \ {NoFile})
        \cup ({DiscoverService(f, d).timer_file : f \in GlobServiceFiles(d)} \ {NoFile})

C23_NonZeroRaisesUnlessWarn ==
    cn.result.kind \in {"returned", "raised"} =>
        /\ cn.result.kind = "raised" <=> (cn.result.code # 0 /\ ~cn.run.warn)
        /\ cn.result.kind = "returned" => (cn.result.ok <=> cn.result.code = 0)
        /\ cn.result.kind = "returned" => cn.result.output = Join(cn.run.stdout_buffer)

C23_Witness ==
    /\ cn.result.kind = "returned"
    /\ cn.run.warn
    /\ cn.result.code = 3
    /\ ~cn.result.ok
    /\ cn.result.output # <<>>

C23_WitnessRaised == cn.result.kind = "raised" /\ cn.result.code = 3 /\ ~cn.run.warn

\* C24: the socket opened for a connection is closed on every way out of
\* connection(host)
C24_SocketClosedOnEveryExit == cpc = "exited" => cn.sock = "closed"

\* C24, the paths on which the code does close the socket
C24_SocketClosedExceptConnectAndUnauthenticated ==
    (cpc = "exited" /\ cn.error \notin {"connect", "unauthenticated"}) => cn.sock = "closed"

RunLoopStep == ReadStdout \/ ReadStderr \/ WaitForSocket \/ CheckEof

WrittenText == Join([i \in DOMAIN cn.net.written |-> Decode(cn.net.written[i])])

\* C27: the output run returns is the in-order concatenation of every
\* standard-output chunk the remote wrote before end-of-file, hidden or
\* not; nothing is left queued on the channel
C27_OutputIsAllChunksInOrder ==
    cn.result.kind = "returned" =>
        /\ cn.result.output = WrittenText
        /\ cn.net.script = <<>> /\ cn.net.qout = <<>> /\ cn.net.wire = <<>>

C27_Witness ==
    /\ cn.result.kind = "returned"
    /\ Len(cn.net.written) = 2
    /\ cn.run.hide = "yes"
    /\ cn.run.echoed = <<>>

\* C28: uninstall stops, disables and removes no unit whose name does not
\* start with the application's name
C28_UninstallTouchesOnlyAppUnits ==
    \A u \in opsLog.stopped \cup opsLog.disabled \cup opsLog.removed :
        StartsWith(u, cfg.app_name)

\* C28, the part the code keeps: no unit file of another program is removed
C28_RemovesOnlyAppUnitFiles ==
    /\ \A u \in opsLog.removed : StartsWith(u, cfg.app_name)
    /\ \A f \in UnitNames(ForeignUnits) : f \in sysFiles

\* the deploy command has run a remote command or changed the host
RemoteTouched ==
    \/ dpc \notin {"summary", "connect", "ended", "idle"}
    \/ up # NoUpload \/ inst # NoInstall \/ rb # NoRollback
    \/ remote.final # "none" \/ remote.tmp # "none" \/ remote.staging # "none"

\* C29: in interactive mode the connection is opened and remote commands
\* run only after the operator confirmed the summary; a refusal or an
\* interrupt ends the deploy with nothing done on the host; with no_input no
\* confirmation is asked
C29_NothingRemoteBeforeConfirmation ==
    /\ (outcome.connected \/ RemoteTouched) => (flags.no_input \/ outcome.confirmed)
    /\ RemoteTouched => outcome.connected
    /\ flags.no_input => ~outcome.asked
    /\ (~flags.no_input /\ dpc \notin {"summary", "idle"}) => outcome.asked
    /\ outcome.status = "cancelled" =>
          ~outcome.connected /\ ~RemoteTouched /\ outcome.code = 0 /\ ~outcome.confirmed

C29_Witness ==
    /\ outcome.status = "cancelled"
    /\ outcome.asked
    /\ dpc = "ended"
    /\ ~flags.no_input

C29_WitnessConfirmed == outcome.confirmed /\ outcome.connected /\ remote.final # "none"

\* a lowercase identifier: a lowercase letter, then lowercase letters and digits
IsLowercaseIdentifier(k) ==
    /\ Len(k) >= 1
    /\ k[1] \in {"a", "b"}
    /\ \A i \in 2..Len(k) : k[i] \notin {"A"}

\* the brace-delimited tokens of a template, as spans of their keys
KeySpans(t) ==
    {sp \in (1..Len(t)) \X (1..Len(t)) :
        /\ sp[1] <= sp[2]
        /\ \A p \in sp[1]..sp[2] : t[p] \notin {"{", "}", " "}
        /\ sp[1] > 1 /\ t[sp[1] - 1] = "{"
        /\ sp[2] < Len(t) /\ t[sp[2] + 1] = "}"}

\* the span of a token with the braces around its key
TokenSpan(t, sp) ==
    LET first == CHOOSE i \in 1..sp[1] - 1 :
                     /\ \A p \in i..sp[1] - 1 : t[p] = "{"
                     /\ (i = 1 \/ t[i - 1] # "{")
        last == CHOOSE j \in sp[2] + 1..Len(t) :
                     /\ \A p \in sp[2] + 1..j : t[p] = "}"
                     /\ (j = Len(t) \/ t[j + 1] # "}")
    IN <<first, last>>

\* the template with every token of a bound key replaced by its value
Substituted(t, ctx) ==
    LET bound == {sp \in KeySpans(t) : SubSeq(t, sp[1], sp[2]) \in DOMAIN ctx}
        piece(p) ==
            IF \E sp \in bound : TokenSpan(t, sp)[1] = p
            THEN ctx[LET sp == CHOOSE x \in bound : TokenSpan(t, x)[1] = p
                     IN SubSeq(t, sp[1], sp[2])]
            ELSE IF \E sp \in bound : p \in TokenSpan(t, sp)[1]..TokenSpan(t, sp)[2]
            THEN <<>>
            ELSE <<t[p]>>
    IN Join([p \in 1..Len(t) |-> piece(p)])

UnboundVariables(t, ctx) ==
    {k \in {SubSeq(t, sp[1], sp[2]) : sp \in KeySpans(t)} :
        k \notin DOMAIN ctx /\ IsLowercaseIdentifier(k)}

\* C30: every token of a bound key is replaced by the bound value and every
\* other character of the template is kept; the unresolved set is exactly
\* the unbound keys that are lowercase identifiers; the deploy warns once,
\* with all of them, and not at all when there is none
C30_SubstitutesBoundKeysReportsUnbound ==
    /\ \A i \in DOMAIN fmt.results :
          /\ fmt.results[i] = Substituted(fmt.files[i], fmt.context)
          /\ fmt.unresolved[i] = UnboundVariables(fmt.files[i], fmt.context)
    /\ fpc = "done" =>
          /\ Len(fmt.results) = Len(fmt.files)
          /\ fmt.warnings = IF \E i \in DOMAIN fmt.files :
                                   UnboundVariables(fmt.files[i], fmt.context) # {}
                            THEN <<UNION {UnboundVariables(fmt.files[i], fmt.context) :
                                             i \in DOMAIN fmt.files}>>
                            ELSE <<>>

C30_Witness ==
    /\ fpc = "done"
    /\ fmt.files[1] = <<"{", "a", "}", "{">>
    /\ fmt.context[<<"a">>] = <<"{", "b", "}">>
    /\ fmt.results[1] = <<"{", "b", "}", "{">>
    /\ fmt.unresolved[1] = {}
    /\ fmt.warnings = <<{<<"b">>}>>

\* C33: when the package installation fails the installer ends with a
\* non-zero status and the run never reaches UnitSync, enable or restart
C33_PackageFailureStopsRun ==
    opsLog.package_rc # 0 =>
        /\ ~opsLog.synced
        /\ opsLog.enabled = {} /\ opsLog.restarted = {}
        /\ ipc = "exited" => exitCode # EXIT_SUCCESS

\* C33, the case the code does stop on: an exception before UnitSync (the
\* copy of the binary among them) ends the run with status 1
C33_ExceptionBeforeUnitSyncStopsRun ==
    (ipc = "exited" /\ cause = "exception" /\ ~opsLog.synced) =>
        exitCode = EXIT_GENERAL_ERROR /\ opsLog.enabled = {} /\ opsLog.restarted = {}

\* C34: the unit files are written, then the service manager is reloaded,
\* then the units are enabled, then restarted, then health is verified; a
\* failed enable ends the run before any restart; the restart verb is
\* `restart` exactly with --full-restart
C34_StepOrderAndRestartVerb ==
    /\ \E n \in 0..5 :
          opsLog.steps = SubSeq(<<"write units", "daemon-reload", "enable",
                                  IF cfg.full_restart THEN "restart" ELSE "reload-or-restart",
                                  "is-active">>, 1, n)
    /\ cause = "enable" => opsLog.restarted = {} /\ Len(opsLog.steps) = 3 /\ exitCode # 0
    /\ opsLog.restarted # {} => opsLog.enabled = opsLog.restarted
    /\ opsLog.polled_done => Len(opsLog.steps) = 5

C34_Witness ==
    /\ ipc = "exited"
    /\ cfg.full_restart
    /\ opsLog.steps = <<"write units", "daemon-reload", "enable", "restart", "is-active">>

C34_WitnessEnableFailed == cause = "enable" /\ ipc = "exited" /\ opsLog.synced

UnitsBeforeOf(other) == {f \in opsLog.before : StartsWith(f, other \o <<"-">>)}

Untouched(f) ==
    /\ f \in sysFiles
    /\ f \notin opsLog.disabled \cup opsLog.stopped \cup opsLog.removed
    /\ DropinDirName(f) \in dropinDirs
    /\ DropinDirName(f) \notin opsLog.removed

\* C38: UnitSync for the app leaves the unit files and drop-in directories
\* of another app whose name begins with the app's name as they were
C38_AppWithSamePrefixUntouched ==
    opsLog.synced => \A f \in UnitsBeforeOf(OtherApp) : Untouched(f)

\* C38, for a program whose name does not begin with the app's name
C38_UnrelatedUnitsUntouched ==
    opsLog.synced => \A f \in {x \in opsLog.before : x[1] = "nginx"} : Untouched(f)

(***************************************************************************)
(* Properties of the delta transfer and of the end of a deploy (SpecDeploy) *)
(***************************************************************************)
\* rsync_upload raised, and the except clauses turned use_rsync off
RsyncStepFailed == up.rsync_runs > 0 /\ ~up.use_rsync

\* the cp from the staging file to the final path raised
CopyStepFailed ==
    /\ up.rsync_runs > 0
    /\ up.use_rsync
    /\ dpc = "ended"
    /\ outcome.error = "CommandError"
    /\ ~inst.invoked

\* C32: when the delta path was chosen and a step of it failed (rsync missing,
\* rsync error, or the copy from staging to the final path), the deploy goes
\* on with one plain-copy upload and does not end because of that failure
C32_DeltaFailureFallsBackToPlainCopy ==
    ((RsyncStepFailed \/ CopyStepFailed) /\ dpc # "put"
        /\ outcome.error # "Interrupted") =>
        /\ up.attempts >= 1
        /\ ~CopyStepFailed

\* C32, for the two failures of rsync itself: rsync ran once and put follows
C32_RsyncFailureFallsBack ==
    (RsyncStepFailed /\ dpc # "put" /\ outcome.error # "Interrupted") =>
        /\ up.attempts >= 1
        /\ up.rsync_runs = 1

\* C36: the success message, the pruning and the audit entry of a deploy
\* happen only in runs whose installer exited with status 0
C36_SuccessReportOnlyAfterExitZero ==
    (outcome.success_message \/ outcome.pruned \/ outcome.audited) =>
        inst.code = EXIT_SUCCESS

\* C36, for the runs whose installer ended with a status other than 0 and 3
C36_NoReportAfterOtherFailure ==
    (inst.invoked /\ inst.code \notin {EXIT_SUCCESS, EXIT_SERVICE_START_FAILED}) =>
        ~(outcome.success_message \/ outcome.pruned \/ outcome.audited)

\* C37: when the deploy command has ended, the version marker names a
\* version whose bundle is retained on the host (or nothing was ever installed)
C37_MarkerNamesRetainedBundle ==
    DeployOver => remote.marker \in Retained(remote) \cup {"none"}

\* C37, outside the service-start-failure whose rollback did not succeed
C37_MarkerRetainedOtherwise ==
    (DeployOver /\ ~(inst.code = EXIT_SERVICE_START_FAILED /\ ~rb.rollback_succeeded
                        /\ ~flags.no_rollback)) =>
        remote.marker \in Retained(remote) \cup {"none"}

AppUnits == {u \in cfg.deployed_units : StartsWith(u.template_service_name, cfg.app_name)}

UninstallCompleted == ipc = "exited" /\ exitCode = EXIT_SUCCESS /\ opsLog.synced

\* C40: after uninstall has completed no unit of the app is enabled or
\* running: every instance name@1 .. name@N of a template and every other
\* service, socket and timer is stopped and disabled, and the unit files of
\* the app are removed
C40_NoAppUnitEnabledOrRunning ==
    UninstallCompleted =>
        /\ \A n \in ActiveUnits(AppUnits) : unitState[n] = "inactive" /\ n \notin wantsFiles
        /\ \A f \in UnitNames(AppUnits) : f \notin sysFiles

\* C40, for the units that are not templates and for the enable links
C40_RegularUnitsStoppedAndAllDisabled ==
    UninstallCompleted =>
        /\ \A n \in ActiveUnits({u \in AppUnits : ~u.is_template}) :
              unitState[n] = "inactive"
        /\ \A n \in ActiveUnits(AppUnits) : n \notin wantsFiles
        /\ \A f \in UnitNames(AppUnits) : f \notin sysFiles

(***************************************************************************)
(* Properties of the scale command (SpecScale)                             *)
(***************************************************************************)
\* C35: after successful scale operations with n >= 1, for every scaled
\* service exactly one of service.service and service@.service exists, the
\* template exactly when the last n was >= 2, and the replica map holds n
\* exactly when the last n was >= 2 and has no entry when it was 1; a scale
\* with n <= 0 exits with status 1 and changes neither files nor the map
C35_ScaleKeepsOneDefinitionFile ==
    /\ (scl.all_ok /\ spc = "ready") =>
          \A s \in {x \in ScaleServices : scl.last[x] >= 1} :
              /\ (RegularService(s) \in DOMAIN scl.files) # (TemplateService(s) \in DOMAIN scl.files)
              /\ TemplateService(s) \in DOMAIN scl.files <=> scl.last[s] >= 2
              /\ scl.replicas[s] = IF scl.last[s] >= 2 THEN scl.last[s] ELSE 0
    /\ (scl.ops > 0 /\ scl.count <= 0) => (scl.exit = 1 /\ ~scl.changed /\ spc = "ready")

C35_Witness ==
    /\ scl.all_ok
    /\ spc = "ready"
    /\ scl.ops = MaxScaleOps
    /\ scl.last["worker"] = 1
    /\ scl.last["web"] >= 2
    /\ scl.changed
    /\ RegularService("worker") \in DOMAIN scl.files

C35_WitnessRefused ==
    /\ scl.ops > 1
    /\ scl.count <= 0
    /\ scl.exit = 1
    /\ scl.last["worker"] >= 2

====
